---- MODULE Spec2Model ----
(***************************************************************************)
(* Event processing and state synchronisation of reflex (reflex/app.py):   *)
(* EventNamespace.on_event -> process -> App.preprocess / State._process / *)
(* App.postprocess -> emit -> StateManager.set_state, and the upload       *)
(* endpoint.  Requests are asyncio tasks on one event loop: the code       *)
(* between two suspensions runs without interruption (variable running),   *)
(* and every await that really suspends lets any other task run.           *)
(***************************************************************************)
EXTENDS Integers, Sequences, FiniteSets, TLC

\* ---------------------------------------------------------------- bounds
\* number of requests (socket events and uploads) submitted in one run
MaxTasks == 2
\* largest payload c of the generator handler go(c): it yields c updates
\* before its last one
MaxSteps == 2
\* largest length of App.middleware
MaxMiddleware == 2
\* number of events handed to State._process directly, one after another
MaxEvents == 3

\* ---------------------------------------------------------------- inputs
Tasks == 1..MaxTasks
Tokens == {"t1", "t2"}
Sids == {"s1", "s2"}
\* the query parameters a client sends: parameter name -> value
Queries == {[n \in {"dynamic", "tab-id"} |-> IF n = "dynamic" THEN "foo" ELSE "1"]}
Route == "/test/[dynamic]"
\* the pages of the app, as add_page is called for them: the page of the
\* dynamic route with one load handler, a page with a list of two, and the
\* index page with none (on_load: None is <<>>)
Pages ==
    {[route |-> Route, on_load |-> <<"state.on_load">>, is_list |-> FALSE],
     [route |-> "/multi", on_load |-> <<"state.on_load", "state.on_counter">>,
      is_list |-> TRUE],
     [route |-> "/", on_load |-> <<>>, is_list |-> FALSE]}
Routes == {page.route : page \in Pages}
IndexRoute == "index"
UserMiddleware == {"m1", "m2"}
Hydrate == "hydrate"
HydrateEvent == "state.hydrate"
\* handlers of the root state: a plain handler and a generator handler
SocketHandlers == {HydrateEvent, "state.on_counter", "state.go"}
\* upload handlers: with and without a parameter annotated List[UploadFile]
\* a generator handler that raises after its first update
FailingHandlers == {"state.fail_midway"}
UploadHandlers ==
    {"state.file_upload_state.multi_handle_upload",
     "state.file_upload_state.handle_upload2"}
\* handlers that only read: one a plain field (x = self.counter), one the
\* computed field of the route argument (x = self.dynamic)
ReadHandlers == {"state.read_counter", "state.read_dynamic"}
\* event names that resolve to no handler: no such handler on the root, no
\* such sub-state; and the same for uploads
UnknownHandlers == {"state.no_such_handler", "state.nowhere.go"}
UnknownUploadHandlers ==
    {"state.file_upload_state.no_such_handler", "state.nowhere.handle_upload"}
\* the root state and its sub-state, by name and by full dotted path
RootName == "state"
SubName == "file_upload_state"
SubPath == "state.file_upload_state"
\* state.get_sid() of a state that no socket event has touched
NoSid == ""

VARIABLES
    middleware,   \* App.middleware: the list of registered middleware
    states,       \* StateManager.states: token -> reference of the root state, 0 if none
    heap,         \* the State objects, by reference (references are 1..Len(heap))
    tasks,        \* the local variables and position of every request coroutine
    hist,         \* per request: what it has called and yielded so far (history)
    outbox,       \* per session id: the updates emitted to that connection,
                  \* each as <<request, number of the update in its chain>>
    running,      \* the task the event loop is running now, 0 when all are suspended
    connected     \* the session ids of the connections that are open

vars == <<middleware, states, heap, tasks, hist, outbox, running, connected>>

\* ---------------------------------------------------------------- values
\* An absent Optional (None) is the empty sequence, a present one <<v>>.
None == <<>>
Some(v) == <<v>>

EmptyDelta == [p \in {} |-> None]
EmptyPayload == [a \in {} |-> 0]
EmptyQuery == [a \in {} |-> ""]
EmptyDict == [a \in {} |-> ""]

\* router_data of a state that no event has touched yet (every key absent)
RouterData0 ==
    [pathname |-> "", query |-> EmptyQuery, token |-> "", sid |-> "", headers |-> "",
     ip |-> ""]

\* State(): every field at its declared default.  The root owns the plain
\* fields counter and value, the computed fields dynamic and comp_dynamic
\* (not stored) and the sub-state file_upload_state with its field img_list.
NewState ==
    [router_data |-> RouterData0, counter |-> 0, value |-> 0,
     plain_friends |-> <<"Tommy">>,
     friends_in_nested_list |-> << <<"Tommy">>, <<"Jenny">> >>,
     friends_in_dict |-> [Tommy |-> <<"Jenny">>],
     details |-> [name |-> "Tommy"],
     address |-> << [home |-> "home address"], [work |-> "work address"] >>,
     friend_in_nested_dict |-> [name |-> "Nikhil", friend |-> [name |-> "Alex"]],
     dirty_vars |-> {},
     substates |-> [file_upload_state |-> [img_list |-> <<>>, dirty_vars |-> {}]]]

\* sio.get_environ(sid, namespace): the request environment of a connection
get_environ(sid) ==
    [headers |-> IF sid = "s1" THEN "ua1" ELSE "ua2",
     REMOTE_ADDR |-> IF sid = "s1" THEN "10.0.0.1" ELSE "10.0.0.2"]

\* ---------------------------------------------------------------- StateManager
\* faulty variant: a new root on every call
get_state_fresh(st, hp, token) ==
    [states |-> [st EXCEPT ![token] = Len(hp) + 1],
     heap |-> Append(hp, NewState),
     ref |-> Len(hp) + 1]

\* get_state(token): the root registered under token, a new default root
\* registered under it when there is none.  Yields the new store, heap and
\* the reference returned.
get_state(st, hp, token) ==
    IF st[token] # 0
    THEN [states |-> st, heap |-> hp, ref |-> st[token]]
    ELSE [states |-> [st EXCEPT ![token] = Len(hp) + 1],
          heap |-> Append(hp, NewState),
          ref |-> Len(hp) + 1]

\* faulty variant: the session is dropped when its event is done
set_state_drop(st, token, ref) == [st EXCEPT ![token] = 0]

\* set_state(token, state): store the root under token
set_state(st, token, ref) == [st EXCEPT ![token] = ref]

\* ---------------------------------------------------------------- State
\* the fields of the root and of the sub-state
ContainerVars ==
    {"plain_friends", "friends_in_nested_list", "friends_in_dict",
     "details", "address", "friend_in_nested_dict"}
BaseVars == {"counter", "value"} \cup ContainerVars
ComputedVars == {"dynamic", "comp_dynamic"}
SubVars == {"img_list"}

\* faulty variant: comp_dynamic keeps the value it had when it was first
\* computed
FieldValue_memoized(s, f) ==
    CASE f = "value" -> s.value
      [] f = "counter" -> s.counter
      [] f = "dynamic" -> IF "dynamic" \in DOMAIN s.router_data.query
                          THEN s.router_data.query["dynamic"] ELSE ""
      [] f = "comp_dynamic" -> ""
      [] f = SubName -> [img_list |-> s.substates.file_upload_state.img_list]
      [] f \in ContainerVars -> s[f]

\* the value of a field of the root as a delta reports it.  dynamic is the
\* computed field of the route argument: it reads router_data; comp_dynamic
\* is DynamicState.comp_dynamic: return self.dynamic.  Both are evaluated
\* when they are read.
FieldValue(s, f) ==
    CASE f = "value" -> s.value
      [] f = "counter" -> s.counter
      [] f \in ComputedVars -> IF "dynamic" \in DOMAIN s.router_data.query
                               THEN s.router_data.query["dynamic"] ELSE ""
      [] f = SubName -> [img_list |-> s.substates.file_upload_state.img_list]
      [] f \in ContainerVars -> s[f]

\* the fields of the root a delta reports: the dirty ones, and every
\* computed field, changed or not (test_app.py lines 876-921: the deltas of
\* on_load, set_is_hydrated and on_counter carry dynamic and comp_dynamic
\* though the router data did not change)
delta_vars(s) == (s.dirty_vars \cap BaseVars) \cup ComputedVars

\* State.get_delta: for the root and for the sub-state, under its full
\* path, the fields to report; a state with none is absent
get_delta(s) ==
    LET sub == s.substates.file_upload_state
        sub_vars == sub.dirty_vars \cap SubVars
        paths == (IF delta_vars(s) # {} THEN {RootName} ELSE {})
                 \cup (IF sub_vars # {} THEN {SubPath} ELSE {})
    IN [p \in paths |->
          IF p = RootName THEN [f \in delta_vars(s) |-> FieldValue(s, f)]
          ELSE [f \in sub_vars |-> sub[f]]]

\* State._clean: forget the dirty markers, of the sub-state too
clean(s) ==
    [s EXCEPT !.dirty_vars = {}, !.substates.file_upload_state.dirty_vars = {}]

\* ---------------------------------------------------------------- containers
\* A list is a sequence, a dict a function of its keys.  Python's index i
\* is position i + 1.
list_delitem(v, i) == SubSeq(v, 1, i - 1) \o SubSeq(v, i + 1, Len(v))
list_index(v, x) == CHOOSE i \in 1..Len(v) : v[i] = x /\ \A j \in 1..(i - 1) : v[j] # x
dict_update(d, other) ==
    [k \in DOMAIN d \cup DOMAIN other |-> IF k \in DOMAIN other THEN other[k] ELSE d[k]]
dict_delitem(d, key) == [k \in DOMAIN d \ {key} |-> d[k]]

\* whether Python carries the operation out (it raises IndexError, KeyError
\* or ValueError otherwise)
Applicable(v, op, arg) ==
    CASE op \in {"list.setitem", "list.delitem"} -> arg.index \in 1..Len(v)
      [] op = "list.remove" -> \E i \in 1..Len(v) : v[i] = arg
      [] op = "list.pop" -> Len(v) > 0
      [] op \in {"dict.delitem", "dict.pop"} -> arg \in DOMAIN v
      [] OTHER -> TRUE

\* the container after a mutating operation
ApplyOp(v, op, arg) ==
    CASE op = "list.append" -> Append(v, arg)
      [] op = "list.extend" -> v \o arg
      [] op = "list.remove" -> list_delitem(v, list_index(v, arg))
      [] op = "list.pop" -> list_delitem(v, Len(v))
      [] op = "list.clear" -> <<>>
      [] op = "list.setitem" -> [v EXCEPT ![arg.index] = arg.value]
      [] op = "list.delitem" -> list_delitem(v, arg.index)
      [] op = "dict.setitem" -> dict_update(v, arg)
      [] op = "dict.update" -> dict_update(v, arg)
      [] op \in {"dict.delitem", "dict.pop"} -> dict_delitem(v, arg)
      [] op = "dict.clear" -> EmptyDict

\* the containers met on the way down path exist
RECURSIVE HasPath(_, _)
HasPath(v, path) ==
    IF path = <<>> THEN TRUE
    ELSE Head(path) \in DOMAIN v /\ HasPath(v[Head(path)], Tail(path))

RECURSIVE ValueAt(_, _)
ValueAt(v, path) == IF path = <<>> THEN v ELSE ValueAt(v[Head(path)], Tail(path))

\* the field value after the operation on the container at path in it
RECURSIVE ApplyAt(_, _, _, _)
ApplyAt(v, path, op, arg) ==
    IF path = <<>> THEN ApplyOp(v, op, arg)
    ELSE [v EXCEPT ![Head(path)] = ApplyAt(@, Tail(path), op, arg)]

\* the handlers of the mutation tests: the field, the path in it of the
\* container they change, the operation and its argument
Mutation(name) ==
    LET m(f, path, op, arg) == [field |-> f, path |-> path, op |-> op, arg |-> arg]
    IN CASE name = "state.make_friend" ->
              m("plain_friends", <<>>, "list.append", "another-fd")
         [] name = "state.change_first_friend" ->
              m("plain_friends", <<>>, "list.setitem", [index |-> 1, value |-> "Jenny"])
         [] name = "state.unfriend_first_friend" ->
              m("plain_friends", <<>>, "list.delitem", [index |-> 1])
         [] name = "state.make_friends_with_colleagues" ->
              m("plain_friends", <<>>, "list.extend", <<"Peter", "Jimmy">>)
         [] name = "state.remove_tommy" ->
              m("plain_friends", <<>>, "list.remove", "Tommy")
         [] name = "state.remove_last_friend" ->
              m("plain_friends", <<>>, "list.pop", 0)
         [] name = "state.unfriend_all_friends" ->
              m("plain_friends", <<>>, "list.clear", 0)
         [] name = "state.add_jimmy_to_second_group" ->
              m("friends_in_nested_list", <<2>>, "list.append", "Jimmy")
         [] name = "state.remove_first_person_from_first_group" ->
              m("friends_in_nested_list", <<1>>, "list.delitem", [index |-> 1])
         [] name = "state.remove_first_group" ->
              m("friends_in_nested_list", <<>>, "list.delitem", [index |-> 1])
         [] name = "state.add_jimmy_to_tommy_friends" ->
              m("friends_in_dict", <<"Tommy">>, "list.append", "Jimmy")
         [] name = "state.remove_jenny_from_tommy" ->
              m("friends_in_dict", <<"Tommy">>, "list.remove", "Jenny")
         [] name = "state.tommy_has_no_fds" ->
              m("friends_in_dict", <<"Tommy">>, "list.clear", 0)
         [] name = "state.add_age" ->
              m("details", <<>>, "dict.update", [age |-> 20])
         [] name = "state.change_name" ->
              m("details", <<>>, "dict.setitem", [name |-> "Jenny"])
         [] name = "state.clear_details" ->
              m("details", <<>>, "dict.clear", 0)
         [] name = "state.remove_name" ->
              m("details", <<>>, "dict.delitem", "name")
         [] name = "state.pop_out_age" ->
              m("details", <<>>, "dict.pop", "age")
         [] name = "state.remove_home_address" ->
              m("address", <<1>>, "dict.pop", "home")
         [] name = "state.add_street_to_home_address" ->
              m("address", <<1>>, "dict.setitem", [street |-> "street address"])
         [] name = "state.change_friend_name" ->
              m("friend_in_nested_dict", <<"friend">>, "dict.setitem", [name |-> "Tommy"])
         [] name = "state.add_friend_age" ->
              m("friend_in_nested_dict", <<"friend">>, "dict.setitem", [age |-> 30])
         [] name = "state.remove_friend" ->
              m("friend_in_nested_dict", <<>>, "dict.pop", "friend")

MutationHandlers ==
    {"state.make_friend", "state.change_first_friend", "state.unfriend_first_friend",
     "state.make_friends_with_colleagues", "state.remove_tommy",
     "state.remove_last_friend", "state.unfriend_all_friends",
     "state.add_jimmy_to_second_group", "state.remove_first_person_from_first_group",
     "state.remove_first_group", "state.add_jimmy_to_tommy_friends",
     "state.remove_jenny_from_tommy", "state.tommy_has_no_fds",
     "state.add_age", "state.change_name", "state.clear_details", "state.remove_name",
     "state.pop_out_age", "state.remove_home_address",
     "state.add_street_to_home_address", "state.change_friend_name",
     "state.add_friend_age", "state.remove_friend"}

\* the handler's operation is one Python carries out on this state
CanMutate(s, name) ==
    LET m == Mutation(name)
    IN /\ HasPath(s[m.field], m.path)
       /\ Applicable(ValueAt(s[m.field], m.path), m.op, m.arg)

\* faulty variant: a container inside a container does not report its change
mutate_untracked_nested(s, m) ==
    [s EXCEPT ![m.field] = ApplyAt(@, m.path, m.op, m.arg),
              !.dirty_vars = IF m.path = <<>> THEN @ \cup {m.field} ELSE @]

\* a mutating operation on a tracked container, at any depth in a field,
\* marks the field dirty on the state that owns it
mutate(s, m) ==
    [s EXCEPT ![m.field] = ApplyAt(@, m.path, m.op, m.arg),
              !.dirty_vars = @ \cup {m.field}]

\* name.split(".")[:-1] joined: the path of the state an event name or an
\* upload handler names
handler_path(name) ==
    CASE name \in UploadHandlers -> SubPath
      [] name = "state.file_upload_state.no_such_handler" -> SubPath
      [] name \in {"state.nowhere.go", "state.nowhere.handle_upload"} -> "state.nowhere"
      [] OTHER -> RootName

\* the event handlers of the state at a path, by full name
event_handlers(path) ==
    IF path = SubPath THEN UploadHandlers
    ELSE SocketHandlers \cup FailingHandlers \cup MutationHandlers \cup ReadHandlers
         \cup {"state.set_value", "state.on_load", "state.set_is_hydrated"}

\* faulty variant: every name is taken to resolve
resolve_error_none(name, kind) == None

\* the error of resolving name to a bound handler, None when it resolves:
\* get_substate(path) finds no state at the path, or the state at the path
\* has no such handler (upload_file line 743: getattr raises)
resolve_error(name, kind) ==
    IF handler_path(name) \notin {RootName, SubPath}
    THEN Some([type |-> "RoutingError", name |-> name, text |-> "no such state"])
    ELSE IF name \notin event_handlers(handler_path(name))
    THEN Some([type |-> IF kind = "upload" THEN "AttributeError" ELSE "RoutingError",
               name |-> name, text |-> "no such handler"])
    ELSE None

\* the number of updates a handler yields before its last one
FollowUps(event) ==
    IF event.name = "state.go" THEN event.payload.c
    ELSE IF event.name \in FailingHandlers THEN 1
    ELSE 0

\* segment n of the handler ends in an exception
Raises(event, n) == event.name \in FailingHandlers /\ n = 2

\* one step of a handler: segment n (1 .. FollowUps+1) of its body.
\* on_counter: self.counter = self.counter + 1.
\* go(c): c times { self.value += 1; yield }.
\* fail_midway: self.value += 1; yield; raise.
\* read_counter, read_dynamic: a read of a field leaves the state as it is.
\* multi_handle_upload(files): its loop over the files is read_file below;
\* nothing is left for the segment.
\* set_value(value): self.value = value, the setter every field has.
RunSegment(s, event, n) ==
    CASE event.name \in MutationHandlers -> mutate(s, Mutation(event.name))
      [] event.name = "state.set_value" ->
            [s EXCEPT !.value = event.payload.value, !.dirty_vars = @ \cup {"value"}]
      [] event.name = "state.on_counter" ->
            [s EXCEPT !.counter = @ + 1, !.dirty_vars = @ \cup {"counter"}]
      [] event.name = "state.go" /\ n <= event.payload.c ->
            [s EXCEPT !.value = @ + 1, !.dirty_vars = @ \cup {"value"}]
      [] event.name \in FailingHandlers /\ n = 1 ->
            [s EXCEPT !.value = @ + 1, !.dirty_vars = @ \cup {"value"}]
      [] event.name \in ReadHandlers -> s
      [] OTHER -> s

\* multi_handle_upload, the body of its loop: await file.read(), then
\* self.img_list.append(file.filename)
read_file(s, filename) ==
    [s EXCEPT !.substates.file_upload_state.img_list = Append(@, filename),
              !.substates.file_upload_state.dirty_vars = @ \cup {"img_list"}]

\* faulty variant: every update says it is the last one
state_process_always_final(s, event, n) ==
    LET after == RunSegment(s, event, n)
    IN [state |-> clean(after),
        update |-> [delta |-> get_delta(after), events |-> <<>>, final |-> TRUE]]

\* faulty variant: the dirty markers survive the delta
state_process_keep_dirty(s, event, n) ==
    LET after == RunSegment(s, event, n)
    IN [state |-> after,
        update |-> [delta |-> get_delta(after), events |-> <<>>,
                    final |-> n = FollowUps(event) + 1]]

\* State._process, one round of its loop: the handler runs to its next
\* yield (or to its end), the delta of the fields to report is taken and
\* the dirty markers are cleaned
state_process(s, event, n) ==
    LET after == RunSegment(s, event, n)
    IN [state |-> clean(after),
        update |-> [delta |-> get_delta(after), events |-> <<>>,
                    final |-> n = FollowUps(event) + 1]]

\* State.get_sid: the session id of the router data
get_sid(s) == s.router_data.sid

\* ---------------------------------------------------------------- process
\* format.format_query_params: the query parameters of the router data, "-"
\* replaced by "_" in their names
format_key(name) == IF name = "tab-id" THEN "tab_id" ELSE name
format_query_params(router_data) ==
    LET query == router_data.query
    IN [n \in {format_key(a) : a \in DOMAIN query} |->
           query[CHOOSE a \in DOMAIN query : format_key(a) = n]]

\* process, lines 663-672: router_data.update({...}) on the event's own dict
merge_router_data(event, sid, headers, client_ip) ==
    [event.router_data EXCEPT
        !.query = format_query_params(event.router_data),
        !.token = event.token,
        !.sid = sid,
        !.headers = headers,
        !.ip = client_ip]

\* faulty variant: the assignment is made whatever the value
assign_router_data_always(s, router_data) ==
    [s EXCEPT !.router_data = router_data,
              !.dirty_vars = @ \cup ComputedVars]

\* process, lines 674-677: assign only when different; the assignment marks
\* the computed fields that read router_data dirty
assign_router_data(s, router_data) ==
    IF s.router_data # router_data
    THEN [s EXCEPT !.router_data = router_data,
                   !.dirty_vars = @ \cup ComputedVars]
    ELSE s

\* Event(token, name, payload): router_data defaults to {}
Event(token, name, payload) ==
    [token |-> token, name |-> name, payload |-> payload, router_data |-> RouterData0]

\* the locals of a request: its position, the sid it emits to, its event,
\* the reference of its state, the middleware index of the running hook
\* loop, the handler segments run, the files the upload handler has read
\* (the position of its loop), the update in hand, whether that update
\* is the one preprocess returned (process line 684), the exception raised
IdleTask ==
    [pc |-> "idle", kind |-> "", sid |-> NoSid, state |-> 0,
     event |-> Event("", "", EmptyPayload),
     i |-> 0, n |-> 0, j |-> 0, update |-> None, short |-> FALSE, error |-> None]

\* history of a request: the pre-hook calls <<middleware index, returned an
\* update>>, the post-hook calls <<update number, middleware index, returned
\* an update>>, the handler segments run, the updates yielded, the set_state
\* calls, the follow-up events of the updates it has delivered (queued: the
\* code never takes one out); and of the update in hand: the update as the
\* handler produced it (raw), the update a hook returned for it (out); of an
\* upload, the file names as the client sent them (files)
NoHist ==
    [pre |-> <<>>, post |-> <<>>, segments |-> 0,
     yielded |-> 0, sets |-> 0, queued |-> <<>>, raw |-> None, out |-> None,
     files |-> <<>>]

Init ==
    /\ middleware = <<Hydrate>>
    /\ states = [t \in Tokens |-> 0]
    /\ heap = <<>>
    /\ tasks = [k \in Tasks |-> IdleTask]
    /\ hist = [k \in Tasks |-> NoHist]
    /\ outbox = [s \in Sids \cup {NoSid} |-> {}]
    /\ running = 0
    /\ connected = Sids

\* ---------------------------------------------------------------- middleware
\* App.add_middleware, list.append / list.insert(index, m) with 0 <= index
insert(list, index, m) ==
    IF index >= Len(list) THEN Append(list, m)
    ELSE SubSeq(list, 1, index) \o <<m>> \o SubSeq(list, index + 1, Len(list))

\* the update a user middleware returns when it returns one
MwUpdate(m, hook) ==
    [delta |-> [mw |-> [name |-> m, hook |-> hook]], events |-> <<>>, final |-> TRUE]

\* str.lstrip("/") and str.strip("/") on the routes of the pages
lstrip_slash(route) ==
    CASE route = "/test/[dynamic]" -> "test/[dynamic]"
      [] route = "/multi" -> "multi"
      [] route = "/" -> ""
      [] OTHER -> route
\* format.format_route(route, format_case=False): the route without its
\* outer slashes, the index route for the empty one
format_route(route) ==
    IF lstrip_slash(route) = "" THEN IndexRoute ELSE lstrip_slash(route)

\* App.load_events after add_page of every page: formatted route -> the load
\* handlers in the order given; a page without on_load has no entry
load_events ==
    [r \in {format_route(page.route) : page \in {q \in Pages : q.on_load # <<>>}} |->
        (CHOOSE page \in Pages : format_route(page.route) = r).on_load]

\* faulty variant: the handlers come in the opposite order
RECURSIVE Reverse(_)
Reverse(list) == IF list = <<>> THEN <<>> ELSE Append(Reverse(Tail(list)), Head(list))
get_load_events_reversed(route) ==
    LET r == IF lstrip_slash(route) = "" THEN IndexRoute ELSE lstrip_slash(route)
    IN IF r \in DOMAIN load_events THEN Reverse(load_events[r]) ELSE <<>>

\* App.get_load_events(route)
get_load_events(route) ==
    LET r == IF lstrip_slash(route) = "" THEN IndexRoute ELSE lstrip_slash(route)
    IN IF r \in DOMAIN load_events THEN load_events[r] ELSE <<>>

\* fix_events: every follow-up becomes an Event with the token and the
\* router data of the event that is being processed
fix_event(name, payload, event) ==
    [token |-> event.token, name |-> name, payload |-> payload,
     router_data |-> event.router_data]

\* HydrateMiddleware.preprocess on the hydrate event: the whole state as the
\* delta, the dirty markers cleaned; the load handlers of the event's route
\* and then set_is_hydrated(True) as the follow-up events
HydrateUpdate(s, event) ==
    LET load == get_load_events(event.router_data.pathname)
    IN [delta |-> [p \in {RootName} |->
                     [f \in BaseVars \cup ComputedVars \cup {SubName} |-> FieldValue(s, f)]],
        events |-> [x \in 1..Len(load) |-> fix_event(load[x], EmptyPayload, event)]
                   \o <<fix_event("state.set_is_hydrated", [value |-> TRUE], event)>>,
        final |-> TRUE]

\* what m.preprocess(app, state, event) can return, with the state it leaves
PreResults(m, s, event) ==
    IF m = Hydrate
    THEN IF event.name = HydrateEvent
         THEN {[out |-> Some(HydrateUpdate(s, event)), state |-> clean(s)]}
         ELSE {[out |-> None, state |-> s]}
    ELSE {[out |-> None, state |-> s], [out |-> Some(MwUpdate(m, "pre")), state |-> s]}

\* what m.postprocess(app, state, event, update) can return
PostResults(m, s, event, update) ==
    IF m = Hydrate THEN {None} ELSE {None, Some(MwUpdate(m, "post"))}

\* faulty variant: the loop goes on after a middleware returned an update
preprocess_step_no_return(mw, i, out) ==
    IF i < Len(mw) THEN [returns |-> FALSE, out |-> out, i |-> i + 1]
    ELSE [returns |-> TRUE, out |-> out, i |-> i]

\* App.preprocess, the body of its loop at middleware i with result out:
\* return out if it is not None, go on to the next middleware otherwise
\* and return None after the last one
preprocess_step(mw, i, out) ==
    IF out # None THEN [returns |-> TRUE, out |-> out, i |-> i]
    ELSE IF i < Len(mw) THEN [returns |-> FALSE, out |-> None, i |-> i + 1]
    ELSE [returns |-> TRUE, out |-> None, i |-> i]

\* faulty variant: the loop goes on after a middleware returned an update
postprocess_step_no_return(mw, i, out, update) ==
    LET u == IF out # None THEN out ELSE update
    IN IF i < Len(mw) THEN [returns |-> FALSE, out |-> u, i |-> i + 1]
       ELSE [returns |-> TRUE, out |-> u, i |-> i]

\* App.postprocess, the body of its loop at middleware i with result out:
\* return out if it is not None, go on otherwise and return the update
\* unchanged after the last one
postprocess_step(mw, i, out, update) ==
    IF out # None THEN [returns |-> TRUE, out |-> out, i |-> i]
    ELSE IF i < Len(mw) THEN [returns |-> FALSE, out |-> update, i |-> i + 1]
    ELSE [returns |-> TRUE, out |-> update, i |-> i]

\* ---------------------------------------------------------------- scheduling
\* the handlers that are coroutines and await before they change the state
\* (multi_handle_upload awaits file.read())
AsyncHandlers == {"state.file_upload_state.multi_handle_upload"}

\* The code that follows may suspend before it changes anything (a coroutine
\* hook of a user middleware, a coroutine handler): the loop may then run
\* others.  Between two updates of a handler the await of the emit always
\* suspends.
MaySuspend(pc, i, name) ==
    \/ pc = "dispatch" /\ name \in AsyncHandlers
    \/ pc \in {"pre", "post"} /\ middleware[i] # Hydrate

Resume(k, pc, i, name) == IF MaySuspend(pc, i, name) THEN {k, 0} ELSE {k}

\* ---------------------------------------------------------------- process
\* faulty variant: the handler is dispatched without preprocess
after_merge_skip_preprocess(mw) == "dispatch"

\* process, lines 677-680: after the metadata merge comes app.preprocess,
\* whose loop calls nothing when there is no middleware
after_merge(mw) == IF mw = <<>> THEN "dispatch" ELSE "pre"

\* faulty variant: the update of preprocess is passed through postprocess
after_preprocess_postprocessed(update) == IF update # None THEN "post" ELSE "dispatch"

\* process, lines 683-689: an update from preprocess is yielded as it is,
\* the handler is dispatched only when there is none
after_preprocess(update) == IF update # None THEN "emit" ELSE "dispatch"

\* faulty variant: the update of the handler is yielded without postprocess
after_segment_unprocessed(mw) == "emit"

\* process, lines 689-691: every update of the handler goes to postprocess
after_segment(mw) == IF mw = <<>> THEN "emit" ELSE "post"

\* faulty variant: set_state inside the else branch, after the handler's loop
after_yield_short_ends(t, short) ==
    IF short THEN "done"
    ELSE IF t.n = FollowUps(t.event) + 1 THEN "persist" ELSE "dispatch"

\* faulty variant: set_state inside the loop, after the first update
after_yield_persist_first(t, short) == "persist"

\* process, lines 684-697, when on_event pulls the next update: the loop
\* over state._process(event) goes on until the handler is exhausted, and
\* set_state comes after the loop (and after the yield of line 684)
after_yield(t, short) ==
    IF short \/ t.n = FollowUps(t.event) + 1 THEN "persist" ELSE "dispatch"

\* faulty variant: the upload ends without set_state
after_upload_emit_no_persist(t) ==
    IF t.n = FollowUps(t.event) + 1 THEN "done" ELSE "dispatch"

\* upload_file, lines 766-774: the same loop, set_state after it
after_upload_emit(t) ==
    IF t.n = FollowUps(t.event) + 1 THEN "persist" ELSE "dispatch"

\* upload_file, lines 729-732: token and handler are the first two
\* colon-separated parts of the first file's name; every file keeps the
\* last part of its name.  A file name is the sequence of its parts.
upload_token(files) == files[1][1]
upload_handler(files) == files[1][2]
\* faulty variant: the names keep their prefix
strip_filenames_keep_prefix(files) == files
strip_filenames(files) == [j \in 1..Len(files) |-> files[j][Len(files[j])]]

\* faulty variant: any handler is taken to have the parameter
handler_upload_param_any(handler) == Some("files")

\* inspect.getfullargspec(fn).annotations of the upload handlers: the
\* annotated parameters <<name, annotation>> in declaration order;
\* multi_handle_upload(self, files: List[rx.UploadFile]) and
\* handle_upload2(self, files)
annotations(handler) ==
    IF handler = "state.file_upload_state.multi_handle_upload"
    THEN << <<"files", "List[UploadFile]">> >>
    ELSE <<>>

\* lines 746-753: the loop over the annotations stops at the first one that
\* is a generic alias of UploadFile
RECURSIVE first_upload_param(_)
first_upload_param(params) ==
    IF params = <<>> THEN None
    ELSE IF Head(params)[2] = "List[UploadFile]" THEN Some(Head(params)[1])
    ELSE first_upload_param(Tail(params))

\* upload_file, lines 745-753: the first parameter of the handler annotated
\* List[UploadFile], if any
handler_upload_param(handler) == first_upload_param(annotations(handler))

\* faulty variant: the handler receives the first file only
upload_event_first_file(token, handler, param, files) ==
    Event(token, handler, [p \in {param} |-> <<strip_filenames(files)[1]>>])

\* upload_file, lines 761-765: Event(token=token, name=handler,
\* payload={handler_upload_param[0]: files})
upload_event(token, handler, param, files) ==
    Event(token, handler, [p \in {param} |-> strip_filenames(files)])

\* upload_file, lines 756-759
MissingParamError(handler) ==
    [type |-> "ValueError",
     handler |-> handler,
     text |-> "handler should have a parameter annotated as List[rx.UploadFile]"]

\* the files of an upload request of a client for token and handler
UploadFiles(token, handler) ==
    <<  <<token, handler, "True", "image1.jpg">>,
        <<token, handler, "True", "image2.jpg">>  >>

\* the upload requests for token and handler: the second file named like
\* the first, or with the prefix of another token and handler
UploadRequests(token, handler) ==
    LET other == CHOOSE t \in Tokens : t # token
    IN {UploadFiles(token, handler),
        [UploadFiles(token, handler) EXCEPT
            ![2] = <<other, "state.on_counter", "True", "image2.jpg">>]}

\* the exception a hook or a handler raises
Exc(origin) == [type |-> "Exception", origin |-> origin]

\* faulty variant: the call that raised is made again
on_exception_retry(t) == t.pc

\* process and on_event have no try: an exception of a hook or of the
\* handler ends the generator and the coroutine that iterates it
on_exception(t) == "failed"

\* faulty variant: the emit task is created but not awaited: the chain goes
\* on while the update is not delivered
emit_detached(ob, open, sid, msg) == ob

\* EventNamespace.emit(event, data, to=sid), awaited to its end: the message
\* is delivered to the connection sid and to no other; a connection that is
\* not open receives nothing
emit(ob, open, sid, msg) ==
    IF sid \in open \cup {NoSid} THEN [ob EXCEPT ![sid] = @ \cup {msg}] ELSE ob

\* ---------------------------------------------------------------- actions
\* faulty variant: without an index the middleware goes to the front
add_middleware_prepends(m, index) ==
    /\ \A k \in Tasks : tasks[k].pc = "idle"
    /\ Len(middleware) < MaxMiddleware
    /\ middleware' = IF index = None THEN <<m>> \o middleware
                     ELSE insert(middleware, index[1], m)
    /\ UNCHANGED <<connected, states, heap, tasks, hist, outbox, running>>

\* App.add_middleware(middleware, index=None), lines 287-297
add_middleware(m, index) ==
    /\ \A k \in Tasks : tasks[k].pc = "idle"
    /\ Len(middleware) < MaxMiddleware
    /\ middleware' = IF index = None THEN Append(middleware, m)
                     ELSE insert(middleware, index[1], m)
    /\ UNCHANGED <<connected, states, heap, tasks, hist, outbox, running>>

\* faulty variant: one request at a time: a global gate
CanStart_one_at_a_time(k) ==
    /\ running = 0
    /\ tasks[k].pc = "idle"
    /\ \A i \in Tasks : tasks[i].pc \in {"idle", "done", "failed"}
    /\ IF k = 1 THEN TRUE ELSE tasks[k - 1].pc # "idle"

\* a new request may start when the loop is free; requests start in order
CanStart(k) ==
    /\ running = 0
    /\ tasks[k].pc = "idle"
    /\ IF k = 1 THEN TRUE ELSE tasks[k - 1].pc # "idle"

\* EventNamespace.on_event(sid, data) up to process()'s first await:
\* parse the event, read the environment, get_state, merge the metadata
on_event(k, sid, token, name, c, route, query) ==
    /\ CanStart(k)
    /\ sid \in connected
    /\ LET event == [Event(token, name,
                           IF name = "state.go" THEN [c |-> c] ELSE EmptyPayload)
                     EXCEPT !.router_data.pathname = route,
                            !.router_data.query = query]
           environ == get_environ(sid)
           g == get_state(states, heap, event.token)
           router_data == merge_router_data(event, sid, environ.headers,
                                            environ.REMOTE_ADDR)
           pc == after_merge(middleware)
       IN /\ states' = g.states
          /\ heap' = [g.heap EXCEPT ![g.ref] = assign_router_data(@, router_data)]
          /\ tasks' = [tasks EXCEPT ![k] =
                 [IdleTask EXCEPT !.pc = pc, !.kind = "socket", !.sid = sid,
                                  !.state = g.ref, !.i = 1,
                                  !.event = [event EXCEPT !.router_data = router_data]]]
          /\ running' \in Resume(k, pc, 1, name)
    /\ UNCHANGED <<connected, middleware, hist, outbox>>

\* faulty variant: the requests in flight on the connection are cancelled
on_disconnect_cancels(sid) ==
    /\ sid \in connected
    /\ running = 0
    /\ connected' = connected \ {sid}
    /\ tasks' = [k \in Tasks |->
          IF tasks[k].sid = sid /\ tasks[k].pc \notin {"idle", "done", "failed"}
          THEN [tasks[k] EXCEPT !.pc = "failed", !.error = Some(Exc(<<"cancelled", sid>>))]
          ELSE tasks[k]]
    /\ UNCHANGED <<middleware, states, heap, hist, outbox, running>>

\* EventNamespace.on_disconnect(sid): pass.  The connection is closed; the
\* handler itself does nothing
on_disconnect(sid) ==
    /\ sid \in connected
    /\ running = 0
    /\ connected' = connected \ {sid}
    /\ UNCHANGED <<middleware, states, heap, tasks, hist, outbox, running>>

\* ping(): the HTTP endpoint returns "pong"
ping == "pong"

\* the message on_ping emits: the ping event with the payload "pong"
Pong == [event |-> "ping", data |-> "pong"]

\* faulty variant: the ping fetches the state of a token named like the
\* connection, which registers a default root for it
on_ping_fetches_state(sid) ==
    LET g == get_state(states, heap, IF sid = "s1" THEN "t1" ELSE "t2")
    IN /\ sid \in connected
       /\ running = 0
       /\ states' = g.states
       /\ heap' = g.heap
       /\ outbox' = emit(outbox, connected, sid, Pong)
       /\ UNCHANGED <<connected, middleware, tasks, hist, running>>

\* EventNamespace.on_ping(sid): await self.emit("ping", "pong", to=sid)
on_ping(sid) ==
    /\ sid \in connected
    /\ running = 0
    /\ outbox' = emit(outbox, connected, sid, Pong)
    /\ UNCHANGED <<connected, middleware, states, heap, tasks, hist, running>>

\* faulty variant: the handler is validated before the session is fetched
upload_file_validates_first(k, files) ==
    /\ CanStart(k)
    /\ LET token == upload_token(files)
           handler == upload_handler(files)
           unresolved == resolve_error(handler, "upload")
           param == IF unresolved = None THEN handler_upload_param(handler) ELSE None
           g == IF param = None THEN [states |-> states, heap |-> heap, ref |-> states[token]]
                ELSE get_state(states, heap, token)
           sid == IF g.ref = 0 THEN NoSid ELSE get_sid(g.heap[g.ref])
           event == upload_event(token, handler, param[1], files)
       IN /\ states' = g.states
          /\ heap' = g.heap
          /\ IF param = None
             THEN /\ tasks' = [tasks EXCEPT ![k] =
                        [IdleTask EXCEPT !.pc = "failed", !.kind = "upload",
                                         !.sid = sid, !.state = g.ref,
                                         !.event.token = token,
                                         !.event.name =
                                             IF unresolved = None THEN "" ELSE handler,
                                         !.error =
                                             IF unresolved = None
                                             THEN Some(MissingParamError(handler))
                                             ELSE unresolved]]
                  /\ running' = 0
             ELSE /\ tasks' = [tasks EXCEPT ![k] =
                        [IdleTask EXCEPT !.pc = "dispatch", !.kind = "upload",
                                         !.sid = sid, !.state = g.ref,
                                         !.event = event]]
                  /\ running' \in Resume(k, "dispatch", 1, handler)
    /\ hist' = [hist EXCEPT ![k].files = files]
    /\ UNCHANGED <<connected, middleware, outbox>>

\* faulty variant: the upload assigns its event's router data to the state
upload_file_merges(k, files) ==
    /\ CanStart(k)
    /\ LET token == upload_token(files)
           handler == upload_handler(files)
           g == get_state(states, heap, token)
           sid == get_sid(g.heap[g.ref])
           unresolved == resolve_error(handler, "upload")
           param == IF unresolved = None THEN handler_upload_param(handler) ELSE None
           event == upload_event(token, handler, param[1], files)
       IN /\ states' = g.states
          /\ heap' = [g.heap EXCEPT ![g.ref] =
                        assign_router_data(@, Event(token, handler, EmptyPayload).router_data)]
          /\ IF param = None
             THEN /\ tasks' = [tasks EXCEPT ![k] =
                        [IdleTask EXCEPT !.pc = "failed", !.kind = "upload",
                                         !.sid = sid, !.state = g.ref,
                                         !.event.token = token,
                                         !.event.name =
                                             IF unresolved = None THEN "" ELSE handler,
                                         !.error =
                                             IF unresolved = None
                                             THEN Some(MissingParamError(handler))
                                             ELSE unresolved]]
                  /\ running' = 0
             ELSE /\ tasks' = [tasks EXCEPT ![k] =
                        [IdleTask EXCEPT !.pc = "dispatch", !.kind = "upload",
                                         !.sid = sid, !.state = g.ref,
                                         !.event = event]]
                  /\ running' \in Resume(k, "dispatch", 1, handler)
    /\ hist' = [hist EXCEPT ![k].files = files]
    /\ UNCHANGED <<connected, middleware, outbox>>

\* upload_file(files) up to its first await: parse the names, get_state,
\* read the session id, find the handler and its upload parameter
upload_file(k, files) ==
    /\ CanStart(k)
    /\ LET token == upload_token(files)
           handler == upload_handler(files)
           g == get_state(states, heap, token)
           sid == get_sid(g.heap[g.ref])
           unresolved == resolve_error(handler, "upload")
           param == IF unresolved = None THEN handler_upload_param(handler) ELSE None
           event == upload_event(token, handler, param[1], files)
       IN /\ states' = g.states
          /\ heap' = g.heap
          /\ IF param = None
             THEN /\ tasks' = [tasks EXCEPT ![k] =
                        [IdleTask EXCEPT !.pc = "failed", !.kind = "upload",
                                         !.sid = sid, !.state = g.ref,
                                         !.event.token = token,
                                         !.event.name =
                                             IF unresolved = None THEN "" ELSE handler,
                                         !.error =
                                             IF unresolved = None
                                             THEN Some(MissingParamError(handler))
                                             ELSE unresolved]]
                  /\ running' = 0
             ELSE /\ tasks' = [tasks EXCEPT ![k] =
                        [IdleTask EXCEPT !.pc = "dispatch", !.kind = "upload",
                                         !.sid = sid, !.state = g.ref,
                                         !.event = event]]
                  /\ running' \in Resume(k, "dispatch", 1, handler)
    /\ hist' = [hist EXCEPT ![k].files = files]
    /\ UNCHANGED <<connected, middleware, outbox>>

\* App.preprocess: the call of one middleware's pre-hook, and process lines
\* 680-687 when preprocess returns
PreHook(k) ==
    LET t == tasks[k]
        m == middleware[t.i]
    IN /\ t.pc = "pre"
       /\ running \in {0, k}
       /\ \E r \in PreResults(m, heap[t.state], t.event) :
            LET step == preprocess_step(middleware, t.i, r.out)
                pc == IF step.returns THEN after_preprocess(step.out) ELSE "pre"
                i == IF step.returns THEN 1 ELSE step.i
            IN /\ heap' = [heap EXCEPT ![t.state] = r.state]
               /\ tasks' = [tasks EXCEPT ![k].pc = pc, ![k].i = i,
                                         ![k].update = step.out,
                                         ![k].short = step.out # None]
               /\ hist' = [hist EXCEPT
                     ![k].pre = Append(@, <<t.i, r.out # None>>),
                     ![k].out = r.out,
                     ![k].yielded = IF pc = "emit" THEN @ + 1 ELSE @]
               /\ running' \in IF pc = "emit" THEN {0} ELSE Resume(k, pc, i, t.event.name)
       /\ UNCHANGED <<connected, middleware, states, outbox>>

\* faulty variant: the failure undoes what the event did to the state
HookRaises_rolls_back(k) ==
    LET t == tasks[k]
    IN /\ t.pc \in {"pre", "post"}
       /\ running \in {0, k}
       /\ middleware[t.i] \in UserMiddleware
       /\ tasks' = [tasks EXCEPT ![k].pc = on_exception(t),
                                 ![k].error = Some(Exc(<<middleware[t.i], t.pc>>))]
       /\ heap' = [heap EXCEPT ![t.state] = NewState]
       /\ running' = 0
       /\ UNCHANGED <<connected, middleware, states, hist, outbox>>

\* the pre- or post-hook of a user middleware raises
HookRaises(k) ==
    LET t == tasks[k]
    IN /\ t.pc \in {"pre", "post"}
       /\ running \in {0, k}
       /\ middleware[t.i] \in UserMiddleware
       /\ tasks' = [tasks EXCEPT ![k].pc = on_exception(t),
                                 ![k].error = Some(Exc(<<middleware[t.i], t.pc>>))]
       /\ running' = 0
       /\ UNCHANGED <<connected, middleware, states, heap, hist, outbox>>

\* the handler raises in the segment it is about to run
HandlerRaises(k) ==
    LET t == tasks[k]
    IN /\ t.pc = "dispatch"
       /\ running \in {0, k}
       /\ Raises(t.event, t.n + 1)
       /\ tasks' = [tasks EXCEPT ![k].pc = on_exception(t),
                                 ![k].error = Some(Exc(<<t.event.name, t.n + 1>>))]
       /\ running' = 0
       /\ UNCHANGED <<connected, middleware, states, heap, hist, outbox>>

\* State._process, before the handler is called: the event's name resolves
\* to no handler and the error ends the event
ResolveFails(k) ==
    LET t == tasks[k]
    IN /\ t.pc = "dispatch"
       /\ running \in {0, k}
       /\ resolve_error(t.event.name, t.kind) # None
       /\ tasks' = [tasks EXCEPT ![k].pc = on_exception(t),
                                 ![k].error = resolve_error(t.event.name, t.kind)]
       /\ running' = 0
       /\ UNCHANGED <<connected, middleware, states, heap, hist, outbox>>

\* State._process in multi_handle_upload: one round of the handler's loop
\* over the files; the await of the next round may suspend
ReadFile(k) ==
    LET t == tasks[k]
        j == t.j + 1
    IN /\ t.pc = "dispatch"
       /\ t.event.name \in AsyncHandlers
       /\ running \in {0, k}
       /\ j <= Len(t.event.payload.files)
       /\ heap' = [heap EXCEPT ![t.state] = read_file(@, t.event.payload.files[j])]
       /\ tasks' = [tasks EXCEPT ![k].j = j]
       /\ running' \in IF j < Len(t.event.payload.files) THEN {k, 0} ELSE {k}
       /\ UNCHANGED <<connected, middleware, states, hist, outbox>>

\* State._process: the handler runs to its next yield (or to its end), the
\* delta of the dirty fields is taken and the markers are cleaned
Dispatch(k) ==
    LET t == tasks[k]
        n == t.n + 1
        r == state_process(heap[t.state], t.event, n)
        update == r.update
        pc == after_segment(middleware)
    IN /\ t.pc = "dispatch"
       /\ running \in {0, k}
       /\ t.event.name \in AsyncHandlers => t.j = Len(t.event.payload.files)
       /\ ~Raises(t.event, n)
       /\ resolve_error(t.event.name, t.kind) = None
       /\ heap' = [heap EXCEPT ![t.state] = r.state]
       /\ tasks' = [tasks EXCEPT ![k].pc = pc, ![k].i = 1, ![k].n = n,
                                 ![k].update = Some(update)]
       /\ hist' = [hist EXCEPT
             ![k].segments = @ + 1,
             ![k].raw = Some(update),
             ![k].yielded = IF pc = "emit" THEN @ + 1 ELSE @]
       /\ running' \in IF pc = "emit" THEN {0} ELSE Resume(k, pc, 1, t.event.name)
       /\ UNCHANGED <<connected, middleware, states, outbox>>

\* App.postprocess: the call of one middleware's post-hook, and the yield of
\* process line 694 (the emit of upload_file line 770) when it returns
PostHook(k) ==
    LET t == tasks[k]
        m == middleware[t.i]
    IN /\ t.pc = "post"
       /\ running \in {0, k}
       /\ \E out \in PostResults(m, heap[t.state], t.event, t.update[1]) :
            LET step == postprocess_step(middleware, t.i, out, t.update)
                pc == IF step.returns THEN "emit" ELSE "post"
            IN /\ tasks' = [tasks EXCEPT ![k].pc = pc, ![k].i = step.i,
                                         ![k].update = step.out]
               /\ hist' = [hist EXCEPT
                     ![k].post = Append(@, <<hist[k].yielded + 1, t.i, out # None>>),
                     ![k].out = out,
                     ![k].yielded = IF pc = "emit" THEN @ + 1 ELSE @]
               /\ running' \in IF pc = "emit" THEN {0} ELSE Resume(k, pc, step.i, t.event.name)
       /\ UNCHANGED <<connected, middleware, states, heap, outbox>>

\* faulty variant: the emit names no recipient: every open connection
\* receives the update
Emit_broadcast(k) ==
    LET t == tasks[k]
        pc == IF t.kind = "upload" THEN after_upload_emit(t)
              ELSE after_yield(t, t.short)
    IN /\ t.pc = "emit"
       /\ running = 0
       /\ outbox' = [sid \in DOMAIN outbox |->
                        IF sid \in connected
                        THEN outbox[sid] \cup {[task |-> k, seq |-> hist[k].yielded]}
                        ELSE outbox[sid]]
       /\ tasks' = [tasks EXCEPT ![k].pc = pc, ![k].update = None]
       /\ hist' = [hist EXCEPT ![k].raw = None, ![k].out = None,
                                ![k].queued = @ \o t.update[1].events]
       /\ running' = k
       /\ UNCHANGED <<connected, middleware, states, heap>>

\* faulty variant: the session id is read from the state at every emit
Emit_current_sid(k) ==
    LET t == tasks[k]
        pc == IF t.kind = "upload" THEN after_upload_emit(t)
              ELSE after_yield(t, t.short)
    IN /\ t.pc = "emit"
       /\ running = 0
       /\ outbox' = emit(outbox, connected, get_sid(heap[t.state]),
                         [task |-> k, seq |-> hist[k].yielded])
       /\ tasks' = [tasks EXCEPT ![k].pc = pc, ![k].update = None]
       /\ hist' = [hist EXCEPT ![k].raw = None, ![k].out = None,
                                ![k].queued = @ \o t.update[1].events]
       /\ running' = k
       /\ UNCHANGED <<connected, middleware, states, heap>>

\* on_event lines 837-841 and upload_file lines 770-772: await the task that
\* emits the update to sid, then go on with the loop
Emit(k) ==
    LET t == tasks[k]
        pc == IF t.kind = "upload" THEN after_upload_emit(t)
              ELSE after_yield(t, t.short)
    IN /\ t.pc = "emit"
       /\ running = 0
       /\ outbox' = emit(outbox, connected, t.sid, [task |-> k, seq |-> hist[k].yielded])
       /\ tasks' = [tasks EXCEPT ![k].pc = pc, ![k].update = None]
       /\ hist' = [hist EXCEPT ![k].raw = None, ![k].out = None,
                                ![k].queued = @ \o t.update[1].events]
       /\ running' = k
       /\ UNCHANGED <<connected, middleware, states, heap>>

\* faulty variant: the generator stores the state when it is dropped
Abandon_persists(k) ==
    LET t == tasks[k]
    IN /\ t.pc = "emit"
       /\ running = 0
       /\ states' = set_state(states, t.event.token, t.state)
       /\ tasks' = [tasks EXCEPT ![k].pc = "abandoned", ![k].update = None]
       /\ hist' = [hist EXCEPT ![k].raw = None, ![k].out = None, ![k].sets = @ + 1]
       /\ UNCHANGED <<connected, middleware, heap, outbox, running>>

\* process(...).__anext__() and no more: the consumer takes the update the
\* generator has yielded and never resumes it; the generator stays at its
\* yield (lines 684, 694) and what follows the yield is not run
Abandon(k) ==
    LET t == tasks[k]
    IN /\ t.pc = "emit"
       /\ running = 0
       /\ tasks' = [tasks EXCEPT ![k].pc = "abandoned", ![k].update = None]
       /\ hist' = [hist EXCEPT ![k].raw = None, ![k].out = None]
       /\ UNCHANGED <<connected, middleware, states, heap, outbox, running>>

\* faulty variant: the store is not keyed by the token
SetState_any_token(k) ==
    LET t == tasks[k]
    IN /\ t.pc = "persist"
       /\ running = k
       /\ states' = [token \in Tokens |-> t.state]
       /\ tasks' = [tasks EXCEPT ![k].pc = "done"]
       /\ hist' = [hist EXCEPT ![k].sets = @ + 1]
       /\ running' = 0
       /\ UNCHANGED <<connected, middleware, heap, outbox>>

\* process line 697 and upload_file line 774:
\* app.state_manager.set_state(event.token, state)
SetState(k) ==
    LET t == tasks[k]
    IN /\ t.pc = "persist"
       /\ running = k
       /\ states' = set_state(states, t.event.token, t.state)
       /\ tasks' = [tasks EXCEPT ![k].pc = "done"]
       /\ hist' = [hist EXCEPT ![k].sets = @ + 1]
       /\ running' = 0
       /\ UNCHANGED <<connected, middleware, heap, outbox>>

\* ---------------------------------------------------------------- specifications
\* Concurrent requests over the middleware list of a new App
Next ==
    \/ \E k \in Tasks, sid \in Sids, token \in Tokens, name \in SocketHandlers,
          query \in Queries :
          on_event(k, sid, token, name, MaxSteps, Route, query)
    \/ \E k \in Tasks, token \in Tokens, handler \in UploadHandlers :
          \E files \in UploadRequests(token, handler) : upload_file(k, files)
    \/ \E k \in Tasks : PreHook(k)
    \/ \E k \in Tasks : ReadFile(k)
    \/ \E k \in Tasks : Dispatch(k)
    \/ \E k \in Tasks : PostHook(k)
    \/ \E k \in Tasks : Emit(k)
    \/ \E k \in Tasks : SetState(k)

Spec == Init /\ [][Next]_vars

\* One request through every middleware list add_middleware can build
NextPipeline ==
    \/ \E m \in UserMiddleware, index \in {None} \cup {Some(i) : i \in 0..MaxMiddleware} :
          add_middleware(m, index)
    \/ \E sid \in Sids, token \in Tokens,
          name \in SocketHandlers \cup FailingHandlers \cup UnknownHandlers,
          c \in 0..MaxSteps, route \in Routes, query \in Queries :
          /\ name # "state.go" => c = 0
          /\ name # HydrateEvent => route = Route
          /\ on_event(1, sid, token, name, c, route, query)
    \/ \E token \in Tokens, handler \in UnknownUploadHandlers :
          upload_file(1, UploadFiles(token, handler))
    \/ PreHook(1)
    \/ HookRaises(1)
    \/ HandlerRaises(1)
    \/ ResolveFails(1)
    \/ Dispatch(1)
    \/ PostHook(1)
    \/ Emit(1)
    \/ SetState(1)

SpecPipeline == Init /\ [][NextPipeline]_vars

\* One socket event of a client that may disconnect at any time
NextDisconnect ==
    \/ \E sid \in Sids, token \in Tokens, name \in SocketHandlers, query \in Queries :
          on_event(1, sid, token, name, MaxSteps, Route, query)
    \/ \E sid \in Sids : on_disconnect(sid)
    \/ PreHook(1)
    \/ Dispatch(1)
    \/ PostHook(1)
    \/ Emit(1)
    \/ SetState(1)

SpecDisconnect == Init /\ [][NextDisconnect]_vars

\* Events of one client for one token, reading handlers among them, and
\* pings of any client
NextRead ==
    \/ \E sid \in Sids : on_ping(sid)
    \/ \E k \in Tasks, name \in ReadHandlers \cup {"state.on_counter"}, query \in Queries :
          on_event(k, "s1", "t1", name, 0, Route, query)
    \/ \E k \in Tasks : PreHook(k)
    \/ \E k \in Tasks : Dispatch(k)
    \/ \E k \in Tasks : PostHook(k)
    \/ \E k \in Tasks : Emit(k)
    \/ \E k \in Tasks : SetState(k)

SpecRead == Init /\ [][NextRead]_vars

\* process called by a consumer that may stop pulling after any update
NextTake ==
    \/ \E k \in Tasks, token \in Tokens, name \in SocketHandlers, query \in Queries :
          on_event(k, "s1", token, name, MaxSteps, Route, query)
    \/ \E k \in Tasks : PreHook(k)
    \/ \E k \in Tasks : Dispatch(k)
    \/ \E k \in Tasks : PostHook(k)
    \/ \E k \in Tasks : Emit(k)
    \/ \E k \in Tasks : Abandon(k)
    \/ \E k \in Tasks : SetState(k)

SpecTake == Init /\ [][NextTake]_vars

\* Events handed to State._process of one state directly, the first update
\* of each taken, as the mutation tests do
DirectHandlers == MutationHandlers \cup {"state.set_value", "state.on_counter"}
DirectValues == {0, 50}

InitState ==
    /\ middleware = <<Hydrate>>
    /\ states = [t \in Tokens |-> 0]
    /\ heap = <<NewState>>
    /\ tasks = [k \in Tasks |-> IdleTask]
    /\ hist = [k \in Tasks |-> NoHist]
    /\ outbox = [s \in Sids \cup {NoSid} |-> {}]
    /\ running = 0
    /\ connected = Sids

\* state._process(Event(token, name, payload)).__anext__() on the state
\* heap[1]; the request record keeps the event and the update it returned
direct_process(name, value) ==
    LET event == Event("fake-token", name,
                       IF name = "state.set_value" THEN [value |-> value]
                       ELSE EmptyPayload)
        r == state_process(heap[1], event, 1)
    IN /\ hist[1].segments < MaxEvents
       /\ name \in MutationHandlers => CanMutate(heap[1], name)
       /\ name # "state.set_value" => value = 0
       /\ heap' = [heap EXCEPT ![1] = r.state]
       /\ tasks' = [tasks EXCEPT ![1] =
             [IdleTask EXCEPT !.kind = "direct", !.state = 1, !.event = event,
                              !.n = 1, !.update = Some(r.update)]]
       /\ hist' = [hist EXCEPT ![1].segments = @ + 1, ![1].raw = Some(r.update)]
       /\ UNCHANGED <<connected, middleware, states, outbox, running>>

NextState == \E name \in DirectHandlers, value \in DirectValues : direct_process(name, value)

SpecState == InitState /\ [][NextState]_vars
\* ---------------------------------------------------------------- properties
Started(k) == tasks[k].pc # "idle"
Finished(k) == tasks[k].pc \in {"done", "failed"}
InFlight(k) == Started(k) /\ ~Finished(k)
SameToken(i, j) ==
    Started(i) /\ Started(j) /\ tasks[i].event.token = tasks[j].event.token

\* the request has begun to change its session's state: a socket event with
\* the metadata merge of its first step, an upload with its handler
Begun(k) ==
    \/ tasks[k].kind = "socket" /\ Started(k)
    \/ tasks[k].kind = "upload" /\ (tasks[k].j > 0 \/ hist[k].segments > 0)

\* the increments of counter field f the handler of a request makes in all
Mutations(t, f) ==
    CASE f = "counter" /\ t.event.name = "state.on_counter" -> 1
      [] f = "value" /\ t.event.name = "state.go" -> t.event.payload.c
      [] OTHER -> 0

\* the increments of f it has made so far
MutationsDone(t, f) ==
    CASE f = "counter" /\ t.event.name = "state.on_counter" -> IF t.n >= 1 THEN 1 ELSE 0
      [] f = "value" /\ t.event.name = "state.go" ->
            IF t.n <= t.event.payload.c THEN t.n ELSE t.event.payload.c
      [] OTHER -> 0

\* C1: events for the same token are processed one at a time in arrival
\* order: a later request for a token has not begun to change the state
\* before set_state has run for every earlier request for that token (an
\* upload refused for its missing parameter has nothing to persist).
C1_OneAtATimePerToken ==
    \A i, j \in Tasks :
        (i < j /\ SameToken(i, j) /\ Begun(j) /\ tasks[i].pc # "failed")
            => hist[i].sets = 1

\* the value a serial execution in arrival order leaves in counter field f
\* of the state of token after the first n requests
RECURSIVE SerialValue(_, _, _)
SerialValue(f, token, n) ==
    IF n = 0 THEN 0
    ELSE SerialValue(f, token, n - 1)
         + (IF Started(n) /\ tasks[n].event.token = token /\ ~tasks[n].short
            THEN Mutations(tasks[n], f) ELSE 0)

Reports(update, f) ==
    /\ RootName \in DOMAIN update.delta
    /\ f \in DOMAIN update.delta[RootName]

\* C2: two requests for one token are observably serialized: every delta a
\* handler produces reports the counters a serial execution in arrival order
\* gives them (the earlier requests' whole chains, then its own steps so
\* far), and when all requests are finished the state is the serial one.
C2_ObservablySerialized ==
    \A f \in {"counter", "value"} :
        /\ \A j \in Tasks :
              (hist[j].raw # None /\ Reports(hist[j].raw[1], f))
                  => hist[j].raw[1].delta[RootName][f]
                        = SerialValue(f, tasks[j].event.token, j - 1)
                          + MutationsDone(tasks[j], f)
        /\ (\A k \in Tasks : Finished(k))
              => \A k \in Tasks :
                    FieldValue(heap[tasks[k].state], f)
                        = SerialValue(f, tasks[k].event.token, MaxTasks)
\* ---------------------------------------------------------------- one event
\* the calls of postprocess: each starts with the post-hook of middleware 1
PostprocessCalls(k) ==
    Cardinality({x \in 1..Len(hist[k].post) : hist[k].post[x][2] = 1})

Dispatched(k) == tasks[k].kind = "socket" /\ ~tasks[k].short

\* C3: an event whose handler makes N follow-up steps yields N+1 updates in
\* the order the handler produced them, and postprocess is called exactly
\* once on each of them.
C3_OneUpdatePerStep ==
    \A k \in Tasks : Dispatched(k) =>
        LET N == FollowUps(tasks[k].event)
        IN /\ tasks[k].pc = "done"
                => /\ hist[k].yielded = N + 1
                   /\ hist[k].segments = N + 1
                   /\ PostprocessCalls(k) = N + 1
           /\ tasks[k].pc = "emit"
                => /\ hist[k].yielded = hist[k].segments
                   /\ hist[k].yielded = tasks[k].n
           /\ \A u \in 1..hist[k].yielded :
                Cardinality({x \in 1..Len(hist[k].post) :
                                hist[k].post[x][1] = u /\ hist[k].post[x][2] = 1}) = 1

W3_ChainDone ==
    \E k \in Tasks :
        /\ tasks[k].pc = "done" /\ Dispatched(k)
        /\ FollowUps(tasks[k].event) = MaxSteps
        /\ hist[k].yielded = MaxSteps + 1
        /\ Len(middleware) = MaxMiddleware

\* C5: pre-hooks run in registration order, no pre-hook runs after one that
\* returned an update, and the handler runs if and only if none returned one.
C5_PreHooksShortCircuit ==
    \A k \in Tasks : tasks[k].kind = "socket" =>
        LET pre == hist[k].pre
            returned == \E x \in 1..Len(pre) : pre[x][2]
        IN /\ \A x \in 1..Len(pre) : pre[x][1] = x
           /\ \A x \in 1..Len(pre) : pre[x][2] => x = Len(pre)
           /\ hist[k].segments > 0 => ~returned /\ Len(pre) = Len(middleware)
           /\ returned => tasks[k].pc \in {"emit", "persist", "done"}
           /\ (tasks[k].pc = "done" /\ ~returned) => hist[k].segments > 0

W5_ShortCircuited ==
    \E k \in Tasks :
        /\ tasks[k].pc = "done"
        /\ Len(middleware) > 1
        /\ Len(hist[k].pre) < Len(middleware)
        /\ hist[k].pre[Len(hist[k].pre)][2]
        /\ hist[k].segments = 0

\* C6: when a pre-hook short-circuits an event, exactly one update is yielded
\* and it is the update the pre-hook returned: no post-hook is called on it.
C6_ShortCircuitAsIs ==
    \A k \in Tasks : tasks[k].short =>
        /\ hist[k].post = <<>>
        /\ hist[k].yielded = 1
        /\ hist[k].segments = 0
        /\ tasks[k].pc = "emit"
              => hist[k].out # None /\ tasks[k].update = hist[k].out

W6_ShortCircuitYielded ==
    \E k \in Tasks :
        /\ tasks[k].short /\ tasks[k].pc = "done"
        /\ \E x \in 1..Len(middleware) : middleware[x] \in UserMiddleware

\* the post-hook calls made on update u of request k
PostCallsOn(k, u) == SelectSeq(hist[k].post, LAMBDA c : c[1] = u)

\* C7: on every update of a handler the post-hooks run in registration
\* order; the first one that returns an update replaces the update and ends
\* the calls; if none returns one the update is yielded unchanged.
C7_PostHooksFirstWins ==
    \A k \in Tasks : Dispatched(k) =>
        /\ \A u \in 1..hist[k].segments :
              LET calls == PostCallsOn(k, u)
              IN /\ \A x \in 1..Len(calls) : calls[x][2] = x
                 /\ \A x \in 1..Len(calls) : calls[x][3] => x = Len(calls)
        /\ tasks[k].pc = "emit"
              => LET calls == PostCallsOn(k, hist[k].yielded)
                 IN /\ calls # <<>>
                    /\ IF calls[Len(calls)][3]
                       THEN hist[k].out # None /\ tasks[k].update = hist[k].out
                       ELSE /\ Len(calls) = Len(middleware)
                            /\ tasks[k].update = hist[k].raw

W7_Replaced ==
    \E k \in Tasks :
        /\ Dispatched(k) /\ tasks[k].pc = "emit"
        /\ hist[k].yielded = 2
        /\ Len(PostCallsOn(k, 1)) = Len(middleware)
        /\ Len(PostCallsOn(k, 2)) < Len(middleware)
        /\ tasks[k].update # hist[k].raw
\* ---------------------------------------------------------------- sessions
\* C4: set_state(event.token, state) is called exactly once per event that
\* process handles to its end, after the last update of the chain and never
\* between two updates, and what it stores is the state the whole chain
\* has changed.
C4_PersistOnceAfterChain ==
    \A k \in Tasks : tasks[k].kind = "socket" =>
        LET t == tasks[k]
            updates == IF t.short THEN 1 ELSE FollowUps(t.event) + 1
        IN /\ hist[k].sets = (IF t.pc = "done" THEN 1 ELSE 0)
           /\ t.pc \in {"persist", "done"}
                => /\ hist[k].yielded = updates
                   /\ \A u \in 1..updates : [task |-> k, seq |-> u] \in outbox[t.sid]
           /\ t.pc = "done"
                => /\ states[t.event.token] = t.state
                   /\ \A f \in {"counter", "value"} :
                         ~t.short => FieldValue(heap[t.state], f) >= Mutations(t, f)

W4_ChainPersisted ==
    \E k \in Tasks :
        /\ tasks[k].pc = "done" /\ Dispatched(k)
        /\ tasks[k].event.name = "state.go"
        /\ hist[k].sets = 1
        /\ heap[states[tasks[k].event.token]].value >= MaxSteps

\* the root stored for a token, None when the token has no session
Root(token) == IF states[token] = 0 THEN None ELSE Some(heap[states[token]])

\* request k starts in this step
Starts(k) == tasks[k].pc = "idle" /\ tasks'[k].pc # "idle"

\* the fields of a root that the metadata merge does not write
Fields(s) == [counter |-> s.counter, value |-> s.value, substates |-> s.substates]

\* C8: get_state(token) never returns null; for a token without a session
\* it registers a root with every field at its default, for a token with a
\* session it returns the root stored, with the values earlier events left.
C8_GetStateExistingOrDefault ==
    [][\A k \in Tasks : Starts(k) =>
          LET token == tasks'[k].event.token
              ref == tasks'[k].state
          IN /\ ref # 0
             /\ ref \in DOMAIN heap'
             /\ states'[token] = ref
             /\ IF states[token] = 0
                THEN /\ ref \notin DOMAIN heap
                     /\ Fields(heap'[ref]) = Fields(NewState)
                     /\ tasks'[k].kind = "upload" => heap'[ref] = NewState
                ELSE /\ ref = states[token]
                     /\ Fields(heap'[ref]) = Fields(heap[ref])
                     /\ tasks'[k].kind = "upload" => heap'[ref] = heap[ref]
      ]_vars

W8_SecondGetState ==
    \E i, j \in Tasks :
        /\ i < j /\ SameToken(i, j)
        /\ tasks[j].state = tasks[i].state
        /\ tasks[j].pc = "pre"
        /\ heap[tasks[j].state].value > 0

\* C9: sessions are isolated by token: a step of a request for one token
\* changes neither the root stored for another token nor which root that is.
C9_TokensIsolated ==
    [][\A k \in Tasks : tasks'[k] # tasks[k] =>
          \A token \in Tokens \ {tasks'[k].event.token} :
              /\ states'[token] = states[token]
              /\ Root(token)' = Root(token)
      ]_vars

W9_TwoSessions ==
    \E i, j \in Tasks :
        /\ Started(i) /\ Started(j) /\ ~SameToken(i, j)
        /\ tasks[i].pc = "done" /\ tasks[j].pc = "done"
        /\ heap[tasks[i].state].value > 0
        /\ heap[tasks[j].state].value = 0
        /\ heap[tasks[j].state].counter > 0

\* the steps of request k, and the start of request k for a token
TaskStep(k) ==
    PreHook(k) \/ ReadFile(k) \/ Dispatch(k) \/ PostHook(k) \/ Emit(k) \/ SetState(k)
StartFor(k, token) ==
    \/ \E sid \in Sids, name \in SocketHandlers, query \in Queries :
          on_event(k, sid, token, name, MaxSteps, Route, query)
    \/ \E handler \in UploadHandlers :
          \E files \in UploadRequests(token, handler) : upload_file(k, files)

\* C10: no global gate: whenever the loop is free, whatever requests are in
\* flight, a new request for any token can start and every request in
\* flight can take its next step (fetch, process, persist, deliver).
C10_NoGlobalGate ==
    \A k \in Tasks :
        /\ (running = 0 /\ ~Started(k) /\ (IF k = 1 THEN TRUE ELSE Started(k - 1)))
              => \A token \in Tokens : ENABLED StartFor(k, token)
        /\ (InFlight(k) /\ running \in {0, k}) => ENABLED TaskStep(k)

W10_OtherSessionCompletes ==
    \E i, j \in Tasks :
        /\ i < j /\ ~SameToken(i, j)
        /\ InFlight(i) /\ hist[i].segments = 0 /\ running = 0
        /\ tasks[j].pc = "done"
        /\ hist[j].sets = 1
        /\ \A u \in 1..(FollowUps(tasks[j].event) + 1) :
              [task |-> j, seq |-> u] \in outbox[tasks[j].sid]
        /\ tasks[j].event.name = "state.go"
\* ---------------------------------------------------------------- follow-ups
\* C11: the follow-up events an update carries in its events list are
\* dispatched by the request that produced the update, right after that
\* update: the request does not go on to set_state, and no later request for
\* the token begins, while follow-up events it has delivered wait.
C11_FollowUpsDrained ==
    \A k \in Tasks : hist[k].queued # <<>> =>
        /\ tasks[k].pc \notin {"persist", "done"}
        /\ \A j \in Tasks : (k < j /\ SameToken(k, j)) => ~Begun(j)
\* ---------------------------------------------------------------- deltas
\* the root fields the handler of an event assigns or mutates in place
Writes(name) ==
    CASE name \in MutationHandlers -> {Mutation(name).field}
      [] name = "state.set_value" -> {"value"}
      [] name = "state.on_counter" -> {"counter"}
      [] name = "state.go" -> {"value"}
      [] OTHER -> {}

\* a direct event is processed in this step; the update it returns
DirectStep == hist'[1].segments # hist[1].segments
DirectUpdate == hist'[1].raw[1]

\* update reports field f under the root's path with value v, and under no
\* other path
ReportsOnce(update, f, v) ==
    /\ Reports(update, f)
    /\ update.delta[RootName][f] = v
    /\ \A p \in DOMAIN update.delta \ {RootName} : f \notin DOMAIN update.delta[p]

\* C12: a plain field the handler of an event mutates is in the delta of
\* that event, once, under the path of its state, with the value it has
\* after the mutation; the delta of an event that does not mutate the field
\* has no entry for it, whatever was mutated before: taking a delta clears
\* the dirty markers.
C12_MutatedFieldReportedOnce ==
    [][DirectStep =>
          \A f \in BaseVars :
              IF f \in Writes(tasks'[1].event.name)
              THEN ReportsOnce(DirectUpdate, f, heap'[1][f])
              ELSE /\ heap'[1][f] = heap[1][f]
                   /\ ~Reports(DirectUpdate, f)
      ]_vars

W12_SecondDeltaSilent ==
    /\ hist[1].segments >= 2
    /\ heap[1].value = 50
    /\ heap[1].plain_friends # NewState.plain_friends
    /\ tasks[1].event.name = "state.on_counter"
    /\ ReportsOnce(hist[1].raw[1], "counter", 1)
    /\ ~Reports(hist[1].raw[1], "value")
    /\ ~Reports(hist[1].raw[1], "plain_friends")

\* C13: an in-place operation on a container at any depth inside a field
\* changes the container at that place only and marks the field itself
\* dirty: the delta of the event carries the whole value of the field after
\* the operation.
C13_DeepMutationDirtiesField ==
    [][(DirectStep /\ tasks'[1].event.name \in MutationHandlers) =>
          LET m == Mutation(tasks'[1].event.name)
              before == heap[1][m.field]
              after == heap'[1][m.field]
          IN /\ HasPath(after, m.path)
             /\ ValueAt(after, m.path) = ApplyOp(ValueAt(before, m.path), m.op, m.arg)
             /\ ReportsOnce(DirectUpdate, m.field, after)
             /\ DOMAIN DirectUpdate.delta[RootName] \cap ContainerVars = {m.field}
      ]_vars

W13_NestedMutations ==
    /\ hist[1].segments = 3
    /\ heap[1].friends_in_dict = [Tommy |-> <<"Jenny", "Jimmy">>]
    /\ heap[1].address = << [home |-> "home address", street |-> "street address"],
                            [work |-> "work address"] >>
    /\ heap[1].friends_in_nested_list = << <<"Tommy">>, <<"Jenny", "Jimmy">> >>
    /\ tasks[1].event.name = "state.add_jimmy_to_second_group"
    /\ ReportsOnce(hist[1].raw[1], "friends_in_nested_list",
                   << <<"Tommy">>, <<"Jenny", "Jimmy">> >>)
\* the route argument in router metadata
RouteArg(router_data) ==
    IF "dynamic" \in DOMAIN router_data.query THEN router_data.query["dynamic"] ELSE ""

\* C14: when the metadata merge of an event has assigned router_data, the
\* computed field that reads it (dynamic) and the computed field that reads
\* that one (comp_dynamic) are both in the delta of the update the event
\* produces next, the handler's or the hydrate hook's, each with the value
\* recomputed from the new router_data.
C14_ComputedFollowDependency ==
    \A k \in Tasks :
        LET made == IF hist[k].raw # None THEN hist[k].raw
                    ELSE IF tasks[k].short /\ tasks[k].pc = "emit" THEN hist[k].out
                    ELSE None
        IN (tasks[k].kind = "socket" /\ made # None) =>
              /\ RootName \in DOMAIN made[1].delta
              /\ \A C \in ComputedVars :
                    /\ C \in DOMAIN made[1].delta[RootName]
                    /\ made[1].delta[RootName][C] = RouteArg(tasks[k].event.router_data)

W14_RouteChangeReported ==
    /\ tasks[1].kind = "socket"
    /\ tasks[1].event.name = "state.on_counter"
    /\ hist[1].raw # None
    /\ RouteArg(RouterData0) # RouteArg(tasks[1].event.router_data)
    /\ hist[1].raw[1].delta =
          [p \in {RootName} |-> [counter |-> 1, dynamic |-> "foo", comp_dynamic |-> "foo"]]
\* C15: the metadata merge of an event assigns router_data only when the
\* merged metadata differs from the state's: with equal metadata the state
\* is left as it was (no field becomes dirty), with different metadata the
\* state takes the merged metadata and exactly the computed fields that
\* depend on it become dirty; no other field changes.
C15_RouterDataAssignedWhenDifferent ==
    [][\A k \in Tasks : (Starts(k) /\ tasks'[k].kind = "socket") =>
          LET token == tasks'[k].event.token
              old == IF states[token] = 0 THEN NewState ELSE heap[states[token]]
              new == heap'[tasks'[k].state]
              merged == tasks'[k].event.router_data
          IN IF old.router_data = merged
             THEN new = old
             ELSE /\ new = [old EXCEPT !.router_data = merged,
                                       !.dirty_vars = old.dirty_vars \cup ComputedVars]
                  /\ new.dirty_vars # old.dirty_vars
      ]_vars

W15_EqualMetadata ==
    /\ SameToken(1, 2)
    /\ tasks[1].pc = "done" /\ ~tasks[1].short
    /\ tasks[2].pc = "pre" /\ tasks[2].kind = "socket"
    /\ tasks[2].event.router_data = tasks[1].event.router_data
    /\ heap[tasks[2].state].router_data = tasks[2].event.router_data
    /\ heap[tasks[2].state].dirty_vars = {}
    /\ heap[tasks[2].state].counter = 1
\* the root fields segment n of the handler of an event writes
SegmentWrites(event, n) ==
    IF event.name = "state.go" /\ n > event.payload.c THEN {} ELSE Writes(event.name)

\* C16: in the delta of every update a handler produces, no path maps to an
\* empty field map, the root has an entry only if one of its fields was
\* dirty or is written by the handler step, and the sub-state has an entry
\* only if one of its fields was dirty or is written: a change of the
\* sub-state comes under its full path without an entry for the unchanged
\* root.
C16_UnchangedInstancesAbsent ==
    [][\A k \in Tasks : hist'[k].segments # hist[k].segments =>
          LET t == tasks[k]
              s == heap[t.state]
              delta == hist'[k].raw[1].delta
          IN /\ \A p \in DOMAIN delta : DOMAIN delta[p] # {}
             /\ RootName \in DOMAIN delta =>
                   \/ s.dirty_vars # {}
                   \/ SegmentWrites(t.event, t.n + 1) # {}
             /\ SubPath \in DOMAIN delta =>
                   \/ s.substates.file_upload_state.dirty_vars # {}
                   \/ t.event.name = "state.file_upload_state.multi_handle_upload"
      ]_vars
\* ---------------------------------------------------------------- uploads
\* the last colon-separated part of every name the client sent
OriginalNames(files) == [j \in 1..Len(files) |-> files[j][Len(files[j])]]

\* names come in list in this order, not necessarily side by side
RECURSIVE InOrder(_, _)
InOrder(names, list) ==
    IF names = <<>> THEN TRUE
    ELSE IF list = <<>> THEN FALSE
    ELSE IF Head(list) = Head(names) THEN InOrder(Tail(names), Tail(list))
    ELSE InOrder(names, Tail(list))

\* C17: an upload takes its token and its handler path from the first two
\* parts of the first file's name, whatever the other names carry; the
\* handler receives every file under its original name, in upload order; and
\* the update reports these names in that order in img_list under the full
\* path of the sub-state, not under the root.
C17_UploadNamesParsedAndStripped ==
    \A k \in Tasks : tasks[k].kind = "upload" =>
        LET raw == hist[k].files
            t == tasks[k]
        IN /\ t.event.token = raw[1][1]
           /\ t.state = states[raw[1][1]]
           /\ IF t.pc = "failed" THEN t.error[1].handler = raw[1][2]
              ELSE /\ t.event.name = raw[1][2]
                   /\ t.event.payload.files = OriginalNames(raw)
                   /\ t.event.payload.files = <<"image1.jpg", "image2.jpg">>
           /\ hist[k].raw # None =>
                 LET delta == hist[k].raw[1].delta
                 IN /\ SubPath \in DOMAIN delta
                    /\ DOMAIN delta[SubPath] = {"img_list"}
                    /\ InOrder(OriginalNames(raw), delta[SubPath].img_list)
                    /\ RootName \in DOMAIN delta => "img_list" \notin DOMAIN delta[RootName]

W17_SecondNameOtherPrefix ==
    \E k \in Tasks :
        /\ tasks[k].kind = "upload"
        /\ hist[k].files[2][1] # hist[k].files[1][1]
        /\ Len(hist[k].files[2]) > 1
        /\ states[hist[k].files[2][1]] = 0
        /\ hist[k].raw # None
        /\ hist[k].raw[1].delta[SubPath] = [img_list |-> <<"image1.jpg", "image2.jpg">>]
\* request k has delivered nothing
NothingDelivered(k) == \A sid \in DOMAIN outbox : \A m \in outbox[sid] : m.task # k

\* C18: an upload to a handler without a parameter annotated as a list of
\* uploaded files fails at once with the error that names the handler path:
\* the state of the token is left as it was, the handler does not run, no
\* update is produced or delivered, set_state is not called, and the request
\* takes no further step.
C18_MissingUploadParameter ==
    [][\A k \in Tasks :
          (/\ tasks'[k].kind = "upload"
           /\ hist'[k].files[1][2] = "state.file_upload_state.handle_upload2") =>
             LET token == hist'[k].files[1][1]
                 old == IF states[token] = 0 THEN NewState ELSE heap[states[token]]
             IN /\ tasks'[k].pc = "failed"
                /\ tasks'[k].error # None
                /\ tasks'[k].error[1].type = "ValueError"
                /\ tasks'[k].error[1].handler = hist'[k].files[1][2]
                /\ tasks'[k].j = 0 /\ tasks'[k].update = None
                /\ hist'[k].segments = 0 /\ hist'[k].yielded = 0 /\ hist'[k].sets = 0
                /\ NothingDelivered(k)'
                /\ IF Starts(k) THEN heap'[tasks'[k].state] = old
                   ELSE tasks'[k] = tasks[k]
      ]_vars

W18_RefusedAfterEvent ==
    /\ tasks[1].pc = "done" /\ tasks[1].event.name = "state.on_counter"
    /\ tasks[2].pc = "failed" /\ tasks[2].kind = "upload"
    /\ SameToken(1, 2)
    /\ tasks[2].error = Some(MissingParamError("state.file_upload_state.handle_upload2"))
    /\ heap[tasks[2].state].counter = 1
    /\ heap[tasks[2].state].substates.file_upload_state.img_list = <<>>
    /\ NothingDelivered(2)
Delivered(k) == {m \in UNION {outbox[sid] : sid \in DOMAIN outbox} : m.task = k}

\* C20: when a hook or the handler of an event raises, the event ends with
\* that exception at once: the call is not made again and nothing else is
\* dispatched for the event, the updates it yielded before are all
\* delivered and stay delivered, and it yields no update afterwards.
C20_ExceptionsPropagate ==
    [][\A k \in Tasks :
          /\ (tasks[k].kind = "socket" /\ tasks[k].error = None /\ tasks'[k].error # None) =>
                /\ tasks'[k].pc = "failed"
                /\ tasks'[k].error[1].type = "Exception" =>
                      tasks'[k].error[1].origin =
                          IF tasks[k].pc = "dispatch"
                          THEN <<tasks[k].event.name, tasks[k].n + 1>>
                          ELSE <<middleware[tasks[k].i], tasks[k].pc>>
                /\ hist'[k] = hist[k]
                /\ Delivered(k) = {[task |-> k, seq |-> u] : u \in 1..hist[k].yielded}
          /\ tasks[k].error # None =>
                /\ tasks'[k] = tasks[k]
                /\ hist'[k] = hist[k]
          /\ Delivered(k) \subseteq Delivered(k)'
          /\ tasks[k].pc = "failed" => Delivered(k)' = Delivered(k)
      ]_vars

W20_FailedMidChain ==
    /\ tasks[1].pc = "failed"
    /\ tasks[1].event.name = "state.fail_midway"
    /\ tasks[1].error = Some(Exc(<<"state.fail_midway", 2>>))
    /\ hist[1].yielded = 1
    /\ Delivered(1) = {[task |-> 1, seq |-> 1]}
    /\ hist[1].sets = 0
    /\ Len(middleware) = MaxMiddleware
\* ---------------------------------------------------------------- delivery
\* the numbers in its chain of the updates request k has delivered to sid
DeliveredTo(k, sid) == {m.seq : m \in {x \in outbox[sid] : x.task = k}}

\* C21: the updates of one event are delivered in chain order on the
\* connection that sent the event: the step that delivers an update delivers
\* the one that follows those delivered so far, to the sender's connection
\* and to no other, and the handler is resumed for update u+1 only when the
\* updates 1..u have been delivered.
C21_DeliveredInChainOrder ==
    [][\A k \in Tasks :
          LET before == Cardinality(Delivered(k))
          IN /\ Delivered(k)' # Delivered(k) =>
                   /\ Delivered(k)' = Delivered(k) \cup {[task |-> k, seq |-> before + 1]}
                   /\ hist[k].yielded = before + 1
                   /\ DeliveredTo(k, tasks[k].sid)' = 1..(before + 1)
                   /\ \A sid \in DOMAIN outbox \ {tasks[k].sid} :
                         DeliveredTo(k, sid)' = {}
             /\ hist'[k].segments # hist[k].segments =>
                   /\ hist[k].segments = before
                   /\ DeliveredTo(k, tasks[k].sid) = 1..before
      ]_vars

W21_ChainDelivered ==
    \E k \in Tasks :
        /\ tasks[k].kind = "socket" /\ tasks[k].event.name = "state.go"
        /\ tasks[k].pc = "emit"
        /\ hist[k].yielded = MaxSteps + 1
        /\ DeliveredTo(k, tasks[k].sid) = 1..MaxSteps
        /\ \E j \in Tasks : j # k /\ Started(j) /\ tasks[j].sid # tasks[k].sid
\* ---------------------------------------------------------------- order of steps
\* router_data is what process builds from the event of a connection
Merged(router_data, event, sid) ==
    /\ router_data.token = event.token
    /\ router_data.sid = sid
    /\ router_data.headers = get_environ(sid).headers
    /\ router_data.ip = get_environ(sid).REMOTE_ADDR
    /\ router_data.query = format_query_params(event.router_data)

\* C22: the steps of one event come in the order fetch, metadata merge,
\* pre-hooks, handler with its updates, set_state: when the first pre-hook
\* is called the state fetched holds the merged router data, the handler
\* runs only after every pre-hook has returned (none with an update), and
\* after set_state the event takes no further step.
C22_StepsInOrder ==
    [][\A k \in Tasks : tasks'[k].kind = "socket" =>
          /\ Starts(k) =>
                /\ tasks'[k].state = states'[tasks'[k].event.token]
                /\ Merged(tasks'[k].event.router_data, tasks'[k].event, tasks'[k].sid)
                /\ heap'[tasks'[k].state].router_data = tasks'[k].event.router_data
                /\ hist'[k] = NoHist
          /\ Len(hist'[k].pre) # Len(hist[k].pre) =>
                /\ Started(k)
                /\ Len(hist[k].pre) = 0 =>
                      heap[tasks[k].state].router_data = tasks[k].event.router_data
                /\ hist[k].segments = 0 /\ hist[k].yielded = 0 /\ hist[k].sets = 0
          /\ hist'[k].segments # hist[k].segments =>
                /\ Len(hist[k].pre) = Len(middleware)
                /\ \A x \in 1..Len(hist[k].pre) : ~hist[k].pre[x][2]
                /\ hist[k].sets = 0
          /\ hist'[k].sets # hist[k].sets =>
                /\ hist[k].sets = 0
                /\ hist[k].yielded > 0
                /\ Delivered(k) = {[task |-> k, seq |-> u] : u \in 1..hist[k].yielded}
                /\ tasks'[k].pc = "done"
          /\ tasks[k].pc = "done" =>
                /\ tasks'[k] = tasks[k] /\ hist'[k] = hist[k]
                /\ Delivered(k)' = Delivered(k)
      ]_vars

W22_AllStepsTaken ==
    /\ tasks[1].pc = "done" /\ tasks[1].kind = "socket"
    /\ Len(middleware) = MaxMiddleware
    /\ middleware[1] \in UserMiddleware
    /\ Len(hist[1].pre) = MaxMiddleware
    /\ hist[1].segments = MaxSteps + 1
    /\ hist[1].yielded = MaxSteps + 1
    /\ hist[1].sets = 1
\* ---------------------------------------------------------------- events
\* the router data an event can hold when Event.parse_raw has built it from
\* the client's message: the path and the query parameters
ParsedRouterData ==
    {[RouterData0 EXCEPT !.pathname = r, !.query = q] : r \in Routes, q \in Queries}

\* C23: an event is immutable once constructed: while it is processed its
\* router_data stays what the client's message held (its token, name and
\* payload are never assigned by any step).
C23_EventImmutable ==
    \A k \in Tasks :
        tasks[k].kind = "socket" => tasks[k].event.router_data \in ParsedRouterData
\* ---------------------------------------------------------------- session record
\* the increments of counter field f the handlers of the first n requests
\* have made so far on the state of token
RECURSIVE CumulativeValue(_, _, _)
CumulativeValue(f, token, n) ==
    IF n = 0 THEN 0
    ELSE CumulativeValue(f, token, n - 1)
         + (IF Started(n) /\ tasks[n].event.token = token
            THEN MutationsDone(tasks[n], f) ELSE 0)

\* list a begins list b
IsPrefix(a, b) == Len(a) <= Len(b) /\ SubSeq(b, 1, Len(a)) = a

\* C24: a session record is never destroyed or reset: the root registered
\* for a token stays registered and is the same root, no step takes back
\* what earlier steps wrote, every handler step starts from the values all
\* earlier steps on the token have left and reports the value it makes of
\* them, so the fields hold the sum of the mutations of all events so far.
C24_SessionCumulative ==
    [][/\ \A token \in Tokens :
             /\ states[token] # 0 => states'[token] = states[token]
             /\ states[token] # 0 =>
                   \A f \in {"counter", "value"} :
                       heap[states[token]][f] = CumulativeValue(f, token, MaxTasks)
       /\ \A ref \in DOMAIN heap :
             /\ ref \in DOMAIN heap'
             /\ heap'[ref].counter >= heap[ref].counter
             /\ heap'[ref].value >= heap[ref].value
             /\ IsPrefix(heap[ref].substates.file_upload_state.img_list,
                         heap'[ref].substates.file_upload_state.img_list)
       /\ \A k \in Tasks : hist'[k].segments # hist[k].segments =>
             \A f \in {"counter", "value"} :
                 IF f \in SegmentWrites(tasks[k].event, tasks[k].n + 1)
                 THEN /\ heap'[tasks[k].state][f] = heap[tasks[k].state][f] + 1
                      /\ ReportsOnce(hist'[k].raw[1], f, heap[tasks[k].state][f] + 1)
                 ELSE heap'[tasks[k].state][f] = heap[tasks[k].state][f]
      ]_vars

W24_SecondEventSeesFirst ==
    /\ SameToken(1, 2)
    /\ tasks[1].pc = "done" /\ tasks[1].event.name = "state.on_counter"
    /\ tasks[2].event.name = "state.on_counter"
    /\ tasks[2].state = tasks[1].state
    /\ hist[2].raw # None
    /\ ReportsOnce(hist[2].raw[1], "counter", 2)
\* ---------------------------------------------------------------- final flag
\* C25: in the chain of updates a handler produces for one event, final is
\* false on every update the handler follows with another and true on the
\* last one, so a handler with a single update yields it with final true;
\* an update no post-hook has replaced is yielded with that flag.
C25_FinalMarksLastUpdate ==
    \A k \in Tasks :
        LET t == tasks[k]
            N == FollowUps(t.event)
        IN /\ hist[k].raw # None =>
                 /\ hist[k].raw[1].final = (hist[k].segments = N + 1)
                 /\ N = 0 => hist[k].raw[1].final
           /\ (t.pc = "emit" /\ ~t.short /\ hist[k].out = None) =>
                 /\ t.update = hist[k].raw
                 /\ t.update[1].final = (hist[k].yielded = N + 1)

W25_LastOfChain ==
    /\ tasks[1].event.name = "state.go"
    /\ tasks[1].event.payload.c = MaxSteps
    /\ tasks[1].pc = "emit"
    /\ hist[1].yielded = MaxSteps + 1
    /\ Cardinality(Delivered(1)) = MaxSteps
    /\ hist[1].out = None
    /\ tasks[1].update[1].final
\* ---------------------------------------------------------------- hydration
\* the names of a list of events
Names(events) == [x \in 1..Len(events) |-> events[x].name]

\* the load handlers add_page was given for a route, in the order given
Registered(route) == (CHOOSE page \in Pages : page.route = route).on_load

\* C26: a hydrate event never reaches a handler; when the hydration
\* middleware answers it, the one update yielded is that middleware's: its
\* delta is the whole root state with the route argument of the event in
\* dynamic and comp_dynamic, and its events are the load handlers registered
\* for the event's route, in registration order, then set_is_hydrated(True),
\* each with the token and the merged router data of the hydrate event.
C26_HydrateShortCircuit ==
    \A k \in Tasks :
        LET t == tasks[k]
        IN (t.kind = "socket" /\ t.event.name = HydrateEvent) =>
              /\ hist[k].segments = 0
              /\ hist[k].post = <<>>
              /\ (t.pc = "emit" /\ middleware[Len(hist[k].pre)] = Hydrate) =>
                    LET update == t.update[1]
                        events == update.events
                    IN /\ t.short /\ hist[k].yielded = 1
                       /\ DOMAIN update.delta = {RootName}
                       /\ DOMAIN update.delta[RootName]
                             = BaseVars \cup ComputedVars \cup {SubName}
                       /\ \A C \in ComputedVars :
                             update.delta[RootName][C] = RouteArg(t.event.router_data)
                       /\ Names(events)
                             = Registered(t.event.router_data.pathname)
                               \o <<"state.set_is_hydrated">>
                       /\ events[Len(events)].payload = [value |-> TRUE]
                       /\ \A x \in 1..Len(events) :
                             /\ events[x].token = t.event.token
                             /\ events[x].router_data = t.event.router_data
                             /\ Merged(events[x].router_data, t.event, t.sid)

W26_TwoLoadHandlers ==
    /\ tasks[1].event.name = HydrateEvent
    /\ tasks[1].pc = "emit" /\ tasks[1].short
    /\ Len(middleware) = MaxMiddleware
    /\ middleware[Len(hist[1].pre)] = Hydrate
    /\ Len(hist[1].pre) > 1
    /\ Names(tasks[1].update[1].events)
          = <<"state.on_load", "state.on_counter", "state.set_is_hydrated">>
    /\ tasks[1].update[1].delta[RootName].dynamic = "foo"
C28_DisconnectCancelsNothing ==
    [][/\ connected' # connected =>
             /\ tasks' = tasks /\ hist' = hist
             /\ heap' = heap /\ states' = states
             /\ outbox' = outbox
       /\ \A sid \in Sids \ connected : outbox'[sid] = outbox[sid]
       /\ \A k \in Tasks :
             /\ (InFlight(k) /\ running \in {0, k}) => ENABLED TaskStep(k)
             /\ tasks'[k].error = None /\ tasks'[k].pc # "failed"
             /\ (tasks'[k].pc = "done" /\ ~tasks'[k].short) =>
                   /\ hist'[k].segments = FollowUps(tasks'[k].event) + 1
                   /\ hist'[k].yielded = FollowUps(tasks'[k].event) + 1
                   /\ states'[tasks'[k].event.token] = tasks'[k].state
                   /\ \A f \in {"counter", "value"} :
                         heap'[tasks'[k].state][f] = Mutations(tasks'[k], f)
      ]_vars

W28_DisconnectedMidChain ==
    /\ tasks[1].pc = "done" /\ tasks[1].event.name = "state.go"
    /\ tasks[1].sid \notin connected
    /\ Cardinality(Delivered(1)) = 1
    /\ hist[1].yielded = MaxSteps + 1
    /\ heap[states[tasks[1].event.token]].value = MaxSteps
\* ---------------------------------------------------------------- reads
\* the fields the handler of an event reads and does not write
Reads(name) ==
    CASE name = "state.read_counter" -> {"counter"}
      [] name = "state.read_dynamic" -> {"dynamic"}
      [] OTHER -> {}

\* C29: reading marks nothing dirty: when a handler that only reads runs on
\* a state with no dirty field (the metadata merge of its event assigned
\* nothing), it leaves the state as it was and the delta of its update has
\* no entry for any field it read.
C29_ReadsLeaveNoEntry ==
    [][\A k \in Tasks :
          (/\ hist'[k].segments # hist[k].segments
           /\ tasks[k].event.name \in ReadHandlers
           /\ heap[tasks[k].state].dirty_vars = {}) =>
              /\ heap'[tasks[k].state] = heap[tasks[k].state]
              /\ \A f \in Reads(tasks[k].event.name) : ~Reports(hist'[k].raw[1], f)
      ]_vars
\* ---------------------------------------------------------------- ping
\* C30: a ping is answered with the payload "pong" on the connection that
\* sent it: whenever the loop is free a connected client's ping can be
\* answered, the step that delivers a pong delivers it to one connection
\* and changes nothing else (no session is fetched, created or written, no
\* request is touched), and the HTTP ping returns "pong".
C30_PingAnswersPong ==
    [][/\ ping = "pong"
       /\ \A sid \in connected : running = 0 => ENABLED on_ping(sid)
       /\ \A sid \in DOMAIN outbox :
             (Pong \notin outbox[sid] /\ Pong \in outbox'[sid]) =>
                 /\ sid \in connected
                 /\ outbox' = [outbox EXCEPT ![sid] = @ \cup {Pong}]
                 /\ Pong.data = "pong"
                 /\ states' = states /\ heap' = heap
                 /\ tasks' = tasks /\ hist' = hist
                 /\ middleware' = middleware /\ connected' = connected
      ]_vars

W30_PongBetweenEvents ==
    /\ Pong \in outbox["s2"]
    /\ Pong \notin outbox["s1"]
    /\ states["t2"] = 0
    /\ tasks[1].pc = "emit"
    /\ heap[states["t1"]].counter = 1
\* ---------------------------------------------------------------- persist
\* C31: the persist step runs on the short-circuit path too: an event a
\* pre-hook has answered runs no handler, and when its one update has been
\* delivered set_state(event.token, state) is called, once, so the root
\* stored for the token is the one that holds the merged router data.
C31_PersistOnShortCircuit ==
    \A k \in Tasks : tasks[k].short =>
        LET t == tasks[k]
        IN /\ hist[k].segments = 0
           /\ t.pc \in {"emit", "persist", "done"}
           /\ hist[k].sets = (IF t.pc = "done" THEN 1 ELSE 0)
           /\ t.pc \in {"persist", "done"} =>
                 Delivered(k) = {[task |-> k, seq |-> 1]}
           /\ t.pc = "done" =>
                 /\ states[t.event.token] = t.state
                 /\ Merged(heap[states[t.event.token]].router_data, t.event, t.sid)

W31_ShortCircuitPersisted ==
    /\ tasks[1].short /\ tasks[1].pc = "done"
    /\ middleware[1] \in UserMiddleware
    /\ hist[1].pre = << <<1, TRUE>> >>
    /\ hist[1].sets = 1
    /\ heap[states[tasks[1].event.token]].router_data.sid = tasks[1].sid
\* ---------------------------------------------------------------- failures
\* the increments of value and counter the handler segments run so far have
\* made, a failing handler's included
Applied(t, f) ==
    IF f = "value" /\ t.event.name \in FailingHandlers
    THEN (IF t.n >= 1 THEN 1 ELSE 0)
    ELSE MutationsDone(t, f)

\* C32: when a hook or the handler of an event raises, set_state is not
\* called for the event and nothing is rolled back: the root get_state
\* returns for the token afterwards is the one the event worked on, with
\* the merged router data and every field mutation made before the failure.
C32_FailureKeepsMutations ==
    \A k \in Tasks :
        LET t == tasks[k]
        IN (t.kind = "socket" /\ t.pc = "failed" /\ t.error[1].type = "Exception") =>
              LET g == get_state(states, heap, t.event.token)
              IN /\ hist[k].sets = 0
                 /\ g.ref = t.state /\ g.heap = heap /\ g.states = states
                 /\ g.heap[g.ref].router_data = t.event.router_data
                 /\ Merged(g.heap[g.ref].router_data, t.event, t.sid)
                 /\ \A f \in {"counter", "value"} : g.heap[g.ref][f] = Applied(t, f)

W32_PostHookFailedMidChain ==
    /\ tasks[1].pc = "failed" /\ tasks[1].event.name = "state.go"
    /\ tasks[1].error[1].origin[2] = "post"
    /\ hist[1].yielded = 1 /\ hist[1].segments = 2
    /\ hist[1].sets = 0
    /\ heap[states[tasks[1].event.token]].value = 2
\* ---------------------------------------------------------------- abandoned chains
\* C33: when the consumer of process stops pulling before the chain is
\* exhausted, set_state is never called for the event and the event takes
\* no further step, but what it did stays: get_state for the token returns
\* the root it worked on, with the mutations of every handler step run so
\* far on the token, and later events of the token start from them.
C33_AbandonedChainKeepsMutations ==
    [][\A k \in Tasks :
          /\ tasks[k].pc = "abandoned" =>
                /\ tasks'[k] = tasks[k] /\ hist'[k] = hist[k]
          /\ \A token \in Tokens :
                (tasks'[k].pc = "abandoned" /\ tasks'[k].event.token = token) =>
                   LET g == get_state(states', heap', token)
                   IN /\ hist'[k].sets = 0
                      /\ g.ref = tasks'[k].state /\ g.heap = heap'
                      /\ \A f \in {"counter", "value"} :
                            g.heap[g.ref][f] = CumulativeValue(f, token, MaxTasks)'
      ]_vars

W33_SecondEventAfterAbandoned ==
    /\ tasks[1].pc = "abandoned" /\ tasks[1].event.name = "state.go"
    /\ hist[1].yielded = 1 /\ hist[1].sets = 0
    /\ SameToken(1, 2)
    /\ tasks[2].event.name = "state.go" /\ tasks[2].pc = "done"
    /\ tasks[2].state = tasks[1].state
    /\ heap[states[tasks[2].event.token]].value = MaxSteps + 1
\* ---------------------------------------------------------------- uploads and router data
\* the socket event for the token that started last among the first n
\* requests, 0 if there is none
RECURSIVE LastSocket(_, _)
LastSocket(token, n) ==
    IF n = 0 THEN 0
    ELSE IF /\ tasks[n].kind = "socket" /\ Started(n)
            /\ tasks[n].event.token = token
         THEN n
         ELSE LastSocket(token, n - 1)

\* the router data the socket events have left in the state of the token
SocketRouterData(token) ==
    LET j == LastSocket(token, MaxTasks)
    IN IF j = 0 THEN RouterData0 ELSE tasks[j].event.router_data

\* C34: an upload runs no metadata merge and no pre-hook: no pre-hook call
\* is made for it, its event carries no router data, it is never at the
\* pre-hook loop nor short-circuited, an upload that passed the parameter
\* check has its handler dispatched for every update before set_state, and
\* the router data of the token's state is at every moment what the last
\* socket event for the token merged (the default if there was none).
C34_UploadSkipsMergeAndPreHooks ==
    \A k \in Tasks : tasks[k].kind = "upload" =>
        LET t == tasks[k]
            token == hist[k].files[1][1]
        IN /\ hist[k].pre = <<>>
           /\ ~t.short
           /\ t.pc \in {"failed", "dispatch", "post", "emit", "persist", "done"}
           /\ t.event.router_data = RouterData0
           /\ t.pc \in {"post", "emit"} => hist[k].segments >= 1
           /\ t.pc \in {"persist", "done"} => hist[k].segments = FollowUps(t.event) + 1
           /\ heap[t.state].router_data = SocketRouterData(token)

W34_UploadAroundSocketEvent ==
    /\ tasks[1].kind = "upload" /\ tasks[1].pc = "done" /\ tasks[1].sid = NoSid
    /\ tasks[2].kind = "socket" /\ tasks[2].sid = "s2" /\ SameToken(1, 2)
    /\ hist[1].pre = <<>> /\ Len(hist[1].post) = 1 /\ hist[1].segments = 1
    /\ heap[tasks[1].state].router_data = tasks[2].event.router_data
    /\ heap[tasks[1].state].router_data.sid = "s2"
\* C35: the updates of an upload are delivered to the session id the state
\* of the token held when the upload began, which is the session id of the
\* socket event that started last for the token before the upload (the
\* empty id if there was none): every update of the upload goes to that id
\* and to no other, also when a socket event for the token has written
\* another session id to the state while the upload was in flight.
C35_UploadDeliversToSidReadAtStart ==
    \A k \in Tasks : tasks[k].kind = "upload" =>
        LET t == tasks[k]
            j == LastSocket(hist[k].files[1][1], k - 1)
        IN /\ t.sid = (IF j = 0 THEN NoSid ELSE tasks[j].sid)
           /\ \A sid \in DOMAIN outbox : \A m \in outbox[sid] : m.task = k => sid = t.sid
           /\ t.pc \in {"persist", "done"} =>
                 /\ hist[k].yielded >= 1
                 /\ DeliveredTo(k, t.sid) = 1..hist[k].yielded

W35_SidChangedWhileUploadInFlight ==
    /\ tasks[1].kind = "upload" /\ tasks[1].pc = "persist" /\ tasks[1].sid = NoSid
    /\ tasks[2].kind = "socket" /\ tasks[2].sid = "s2" /\ SameToken(1, 2)
    /\ get_sid(heap[tasks[1].state]) = "s2"
    /\ outbox[NoSid] = {[task |-> 1, seq |-> 1]}
    /\ \A sid \in Sids : \A m \in outbox[sid] : m.task # 1
\* request k is the only one that has started for the token
OnlyRequestOn(k, token) ==
    \A j \in Tasks \ {k} : Started(j) => tasks[j].event.token # token

\* C36: an upload fetches the session before it validates the handler: once
\* an upload has started, refused for its missing parameter or not, a root
\* is registered for its token and is the state the upload holds; when no
\* other request has started for the token that root has every field at its
\* default until the handler of the upload runs, and stays so for an upload
\* that was refused.
C36_UploadRegistersRootBeforeValidation ==
    \A k \in Tasks : tasks[k].kind = "upload" =>
        LET t == tasks[k]
            token == hist[k].files[1][1]
        IN /\ states[token] # 0
           /\ t.state = states[token]
           /\ (/\ OnlyRequestOn(k, token)
               /\ t.pc = "failed" \/ (t.pc = "dispatch" /\ t.j = 0 /\ hist[k].segments = 0)) =>
                  heap[states[token]] = NewState

W36_RefusedUploadRegisteredRoot ==
    /\ tasks[1].kind = "upload" /\ tasks[1].pc = "failed"
    /\ tasks[1].error = Some(MissingParamError("state.file_upload_state.handle_upload2"))
    /\ hist[1].files[1][1] = "t2"
    /\ OnlyRequestOn(1, "t2")
    /\ states["t2"] # 0 /\ heap[states["t2"]] = NewState
    /\ hist[1].sets = 0
\* C37: the event an upload builds has the token and the handler path
\* parsed from the first file name, no router data, and a payload with
\* exactly one key, the name of the first parameter of the handler that is
\* annotated as a list of uploaded files, whose value is the list of all
\* the files received, in the order received.
C37_SyntheticUploadEvent ==
    \A k \in Tasks : (tasks[k].kind = "upload" /\ tasks[k].pc # "failed") =>
        LET e == tasks[k].event
            raw == hist[k].files
            param == first_upload_param(annotations(raw[1][2]))
        IN /\ e.token = raw[1][1]
           /\ e.name = raw[1][2]
           /\ e.router_data = RouterData0
           /\ param # None
           /\ DOMAIN e.payload = {param[1]}
           /\ Len(e.payload[param[1]]) = Len(raw)
           /\ \A j \in 1..Len(raw) : e.payload[param[1]][j] = raw[j][Len(raw[j])]

W37_EventOfTwoFiles ==
    \E k \in Tasks :
        /\ tasks[k].kind = "upload" /\ tasks[k].pc = "dispatch" /\ tasks[k].j = 0
        /\ hist[k].files[2][1] # hist[k].files[1][1]
        /\ tasks[k].event =
              [token |-> hist[k].files[1][1],
               name |-> "state.file_upload_state.multi_handle_upload",
               payload |-> [files |-> <<"image1.jpg", "image2.jpg">>],
               router_data |-> RouterData0]
\* C38: every update of a socket event is emitted to the connection that
\* submitted the event and to no other, whatever else is in flight: each
\* message of the event lies in the outbox of the session id the event came
\* in on (the one the merge wrote to its router data), and when the chain
\* of the event has ended every update it yielded lies there.
C38_UpdatesOnlyToSubmitter ==
    \A k \in Tasks : tasks[k].kind = "socket" =>
        LET t == tasks[k]
        IN /\ t.sid \in Sids
           /\ t.event.router_data.sid = t.sid
           /\ \A sid \in DOMAIN outbox : \A m \in outbox[sid] : m.task = k => sid = t.sid
           /\ t.pc \in {"persist", "done"} =>
                 /\ hist[k].yielded >= 1
                 /\ DeliveredTo(k, t.sid) = 1..hist[k].yielded

W38_TwoConnectionsOneToken ==
    /\ tasks[1].kind = "socket" /\ tasks[1].sid = "s1" /\ tasks[1].event.name = "state.go"
    /\ tasks[2].kind = "socket" /\ tasks[2].sid = "s2" /\ SameToken(1, 2)
    /\ InFlight(1) /\ InFlight(2)
    /\ get_sid(heap[tasks[1].state]) = "s2"
    /\ DeliveredTo(1, "s1") = {1, 2} /\ DeliveredTo(1, "s2") = {}
    /\ DeliveredTo(2, "s2") = {1} /\ DeliveredTo(2, "s1") = {}
\* ---------------------------------------------------------------- middleware order
\* list.insert(i, m) for 0 <= i: m comes to stand at position i (counted
\* from 0), at the end when i is beyond it, and the others keep their order
Inserted(list, i, m) ==
    LET p == IF i > Len(list) THEN Len(list) ELSE i
    IN [x \in 1..(Len(list) + 1) |->
           IF x <= p THEN list[x] ELSE IF x = p + 1 THEN m ELSE list[x - 1]]

\* C39: the middleware list fixes the hook order: the list of a new app is
\* the hydration middleware alone, add_middleware(m) can only append m,
\* add_middleware(m, i) can only insert m at position i, and for every event
\* that follows the x-th pre-hook call and the x-th post-hook call on each
\* update go to the x-th middleware of the list: an update a hook returned
\* is the one of the middleware at the position of the last call.
C39_ListOrderIsHookOrder ==
    /\ SelectSeq(middleware, LAMBDA m : m = Hydrate) = <<Hydrate>>
    /\ \A m \in UserMiddleware :
          /\ ~ENABLED (add_middleware(m, None) /\ middleware' # Append(middleware, m))
          /\ \A i \in 0..MaxMiddleware :
                ~ENABLED (/\ add_middleware(m, Some(i))
                          /\ middleware' # Inserted(middleware, i, m))
    /\ \A k \in Tasks : tasks[k].kind = "socket" =>
          LET pre == hist[k].pre
              t == tasks[k]
          IN /\ Len(pre) <= Len(middleware)
             /\ \A x \in 1..Len(pre) : pre[x][1] = x
             /\ (t.pc = "pre" /\ t.error = None) => t.i = Len(pre) + 1
             /\ (t.short /\ t.pc = "emit") =>
                   t.update = (IF middleware[Len(pre)] = Hydrate
                               THEN Some(HydrateUpdate(heap[t.state], t.event))
                               ELSE Some(MwUpdate(middleware[Len(pre)], "pre")))
             /\ \A u \in 1..hist[k].segments :
                   LET calls == PostCallsOn(k, u)
                   IN /\ Len(calls) <= Len(middleware)
                      /\ \A x \in 1..Len(calls) : calls[x][2] = x
                      /\ (t.pc = "emit" /\ u = hist[k].yielded /\ calls[Len(calls)][3]) =>
                            t.update = Some(MwUpdate(middleware[Len(calls)], "post"))

W39_InsertedBeforeHydrate ==
    /\ middleware = <<"m1", Hydrate>>
    /\ tasks[1].pc = "emit" /\ tasks[1].event.name = "state.go"
    /\ hist[1].pre = << <<1, FALSE>>, <<2, FALSE>> >>
    /\ hist[1].yielded = 2
    /\ PostCallsOn(1, 1) = << <<1, 1, FALSE>>, <<1, 2, FALSE>> >>
    /\ PostCallsOn(1, 2) = << <<2, 1, TRUE>> >>
    /\ tasks[1].update = Some(MwUpdate("m1", "post"))
====
